---- MODULE Spec2Model ----
(***************************************************************************)
(* Resumable, checkpointed crawl of repository branches:                   *)
(*   detail mode  = src/largefileofstale.py   (get_stale_branches_info)    *)
(*   count  mode  = src/larrgerepobranches.py (get_stale_branch_count_rest)*)
(* One process, one thread.  A step of the model is one network request    *)
(* of the program together with everything the program does up to the      *)
(* point right before its next request (including the checkpoint save).    *)
(* The process may be terminated between any two steps and in the middle   *)
(* of a checkpoint save.                                                   *)
(***************************************************************************)
EXTENDS Integers, Sequences, FiniteSets, TLC

(* ------------------------------ bounds -------------------------------- *)
MaxRuns == 2          \* runs of main() in one behaviour
MaxDisturbances == 1  \* process terminations, failed requests and failed
                      \* checkpoint writes in one behaviour
PerPage == 2          \* page size of the model's remote (the code asks for 100)
TicksPerSecond == 2   \* resolution of time.time(): ticks per second

(* ------------------------- program constants -------------------------- *)
SecondsPerDay == 24 * 60 * 60
stale_threshold == 90 * 24 * 60 * 60
FallbackDefaultBranch == "main"

(* --------------------------- remote state ----------------------------- *)
(* The remote is fixed ("remote state unchanged").  Commit dates are whole *)
(* seconds (strptime %S); Malformed stands for a date string that          *)
(* strptime rejects or a payload without commit.committer.date.            *)
Epoch0 == 400 * SecondsPerDay
Malformed == -1

Repos == {"r1", "r2"}
RepoRows == <<"r1", "r2">>

RemoteDefaultBranch(r) == IF r = "r1" THEN "main" ELSE "master"

RemoteBranches(r) ==
    IF r = "r1" THEN <<"main", "feat-a", "feat-b">>
                ELSE <<"master", "edge", "bad">>

BranchNames == {"main", "feat-a", "feat-b", "master", "edge", "bad"}

RemoteCommitDate(b) ==
    CASE b = "main"   -> Epoch0 - 200 * SecondsPerDay
      [] b = "master" -> Epoch0 - 200 * SecondsPerDay
      [] b = "feat-a" -> Epoch0 - 100 * SecondsPerDay
      [] b = "feat-b" -> Epoch0 - 10 * SecondsPerDay
      [] b = "edge"   -> Epoch0 - stale_threshold
      [] OTHER        -> Malformed

(* What the search endpoints know about a branch: a merged pull request    *)
(* (with its base), a merge commit (with the target its message names),    *)
(* commits mentioning the branch together with the default branch.         *)
NoRef == "none"
RemotePrBase(b) ==
    CASE b = "feat-a" -> "main"
      [] b = "master" -> "release"
      [] OTHER        -> NoRef
RemoteMergeCommitTarget(b) ==
    CASE b = "feat-a" -> "develop"
      [] b = "master" -> "develop"
      [] OTHER        -> NoRef
RemoteMentionsDefault(b) == b = "edge"

(* values time.time() may return at the end of an enumeration, in ticks *)
NowValues == {Epoch0 * TicksPerSecond, Epoch0 * TicksPerSecond + 1}

(* GET /repos/{id}/branches?per_page=..&page=p *)
Min(a, b) == IF a < b THEN a ELSE b
BranchPage(r, p) ==
    LET all == RemoteBranches(r)
        lo  == (p - 1) * PerPage + 1
        hi  == Min(p * PerPage, Len(all))
    IN  IF lo > Len(all) THEN <<>> ELSE SubSeq(all, lo, hi)

NumPages(r) == (Len(RemoteBranches(r)) + PerPage - 1) \div PerPage

SeqToSet(s) == {s[i] : i \in 1..Len(s)}


(* ------------------------- checkpoint entries ------------------------- *)
(* A RepositoryCheckpoint is a dict; keys holds the keys that are present, *)
(* the other fields hold the values (the .get() default when absent).      *)
EmptyEntry ==
    [keys |-> {}, pages_processed |-> 0, processed_branches |-> <<>>,
     stale_branches_info |-> <<>>, stale_count |-> 0, total_branches |-> 0,
     needs_excel_update |-> FALSE]

EmptyMap == [r \in Repos |-> EmptyEntry]

MissingFile == [state |-> "missing", data |-> EmptyMap]
(* a document cut off while it was written: json.load raises on it; TornMap *)
(* is what a reader that ignored the error would take from its prefix      *)
TornMap ==
    [r \in Repos |-> [EmptyEntry EXCEPT !.keys = {"pages_processed"},
                                        !.pages_processed = 1]]
CorruptFile == [state |-> "corrupt", data |-> TornMap]
GoodFile(data) == [state |-> "ok", data |-> data]

(* load_checkpoint: {} when the file is missing or json.load raises *)
load_checkpointMutLenient(f) == f.data
load_checkpoint(f) == IF f.state = "ok" THEN f.data ELSE EmptyMap

(* save_checkpoint: open(.., 'w') truncates, json.dump writes the whole    *)
(* map; an exception is caught and printed.  sv is what happens:           *)
(* "ok", "fail_open" (open raised: file untouched), "fail_write" (dump     *)
(* raised after the truncation: the file holds no parsable document).      *)
save_checkpointMutChangedOnly(f, data, sv) ==
    CASE sv = "ok"         ->
            GoodFile([r \in Repos |-> IF data[r] = load_checkpoint(f)[r]
                                      THEN EmptyEntry ELSE data[r]])
      [] sv = "fail_open"  -> f
      [] OTHER             -> CorruptFile
save_checkpoint(f, data, sv) ==
    CASE sv = "ok"         -> GoodFile(data)
      [] sv = "fail_open"  -> f
      [] OTHER             -> CorruptFile

(* the names a save of data puts in some repository's processed_branches *)
Written(data, sv) ==
    IF sv = "ok"
    THEN UNION {{data[r].processed_branches[i] :
                    i \in 1..Len(data[r].processed_branches)} : r \in Repos}
    ELSE {}

StaleNames(info) == {info[i].branch_name : i \in 1..Len(info)}

(* ------------------------------ classifier ---------------------------- *)
(* largefileofstale.py:339 / larrgerepobranches.py:238; now in ticks,      *)
(* the commit timestamp in whole seconds                                   *)
IsStaleMutGE(now, t) == now - t * TicksPerSecond >= stale_threshold * TicksPerSecond
IsStale(now, t) == now - t * TicksPerSecond > stale_threshold * TicksPerSecond

(* strptime(date, "%Y-%m-%dT%H:%M:%SZ") succeeds *)
ParsedOkMutLenient(d) == TRUE
ParsedOk(d) == d # Malformed

(* the early-exit test, largefileofstale.py:227, 284, 357 *)
EnoughStaleMutAlways(info, n) == TRUE
EnoughStaleMutGT(info, n) == Len(info) > n
EnoughStale(info, n) == Len(info) >= n

(* list comprehension at largefileofstale.py:297 *)
BranchesToProcessMutExtra(all, processed) == <<"edge">> \o all
RECURSIVE BranchesToProcess(_, _)
BranchesToProcess(all, processed) ==
    IF all = <<>> THEN <<>>
    ELSE LET rest == BranchesToProcess(Tail(all), processed)
         IN  IF Head(all) \in SeqToSet(processed) THEN rest ELSE <<Head(all)>> \o rest

(* first page requested by an enumeration pass, largefileofstale.py:244-249 *)
StartPageMutOne(pages_processed) == 1
StartPage(pages_processed) ==
    IF pages_processed > 0 THEN pages_processed + 1 ELSE 1

(* the classification loop's step to the next branch of branches_to_process *)
NextIdx(i) == i + 1

(* find_last_merged_branch.  o gives, per request, what the request does:  *)
(* "ok" (status 200, truthful body), "bad" (another status), "exc" (the    *)
(* session.get raises).  Returns the result and the requests issued.       *)
MergeOutcomes == {"ok", "bad", "exc"}
AllOk == [pr_search |-> "ok", pr_detail |-> "ok", commit_search |-> "ok",
          repo |-> "ok", default_search |-> "ok"]
MergeResult(res, steps) == [result |-> res, issued |-> steps]

(* steps 2 and 3 (largefileofstale.py:155-211); s1 = the requests so far *)
MergeFallback(r, b, o, s1) ==
    LET s2 == s1 \o <<"commit_search">> IN
    IF o.commit_search = "exc" THEN MergeResult("Error", s2)
    ELSE IF o.commit_search = "ok" /\ RemoteMergeCommitTarget(b) # NoRef
         THEN MergeResult(RemoteMergeCommitTarget(b), s2)
    ELSE
    LET s3 == s2 \o <<"repo">> IN
    IF o.repo = "exc" THEN MergeResult("Error", s3)
    ELSE IF o.repo = "bad" THEN MergeResult("Unknown", s3)
    ELSE
    LET s4 == s3 \o <<"default_search">> IN
    IF o.default_search = "exc" THEN MergeResult("Error", s4)
    ELSE IF o.default_search = "ok" /\ RemoteMentionsDefault(b)
         THEN MergeResult(RemoteDefaultBranch(r), s4)
    ELSE MergeResult("Unknown", s4)

(* mutant: the pull-request step never returns its base branch *)
find_last_merged_branchMutNoPr(r, b, o) ==
    IF o.pr_search = "exc" THEN MergeResult("Error", <<"pr_search">>)
    ELSE MergeFallback(r, b, o, <<"pr_search">>)
find_last_merged_branch(r, b, o) ==
    IF o.pr_search = "exc" THEN MergeResult("Error", <<"pr_search">>)
    ELSE
    LET prFound == o.pr_search = "ok" /\ RemotePrBase(b) # NoRef
        s1 == IF prFound THEN <<"pr_search", "pr_detail">> ELSE <<"pr_search">>
    IN
    IF prFound /\ o.pr_detail = "exc" THEN MergeResult("Error", s1)
    ELSE IF prFound /\ o.pr_detail = "ok" THEN MergeResult(RemotePrBase(b), s1)
    ELSE MergeFallback(r, b, o, s1)

(* the requests of o that are not "ok" *)
MergeFaults(o, issued) ==
    Cardinality({i \in 1..Len(issued) : o[issued[i]] # "ok"})


(* ------------------------------- state -------------------------------- *)
VARIABLES
    mode,                 \* "detail" (largefileofstale.py) or "count" (larrgerepobranches.py)
    expected,             \* Stale_Branches column of the input CSV, per repository:
                          \* detail mode a number, count mode a cell of CountCells
    budget,               \* how many disturbances the environment causes at most
    csv,                  \* the input CSV: "ok", "unreadable", "missing_column"
    file,                 \* the checkpoint file
    checkpoint_data,      \* main's in-memory map (the entry of the repository in work is rc)
    pc,                   \* position of the process
    run, crashes, faults, \* bounded counters of the behaviour
    repos_to_process, wi, \* main's work list and the index of the repository in work
    \* locals of get_stale_branches_info / get_stale_branch_count_rest
    repo_checkpoint, attached, processed_branches, stale_branches_info, stale_count,
    default_branch, all_branches, page, current_time, branches_to_process, idx, status,
    result,               \* detail mode: the first element of the pair the pass returned
    \* history (not read by the program)
    durable,              \* the last document a save wrote completely
    persistedOnce,        \* names a completed save has written in processed_branches
    seen,                 \* per repository, the names on the branch pages fetched so far
    unsaved,              \* what the latest save of this process was to write, if it failed
    fetchFailed,          \* per branch: the run in which its commit request last failed, or 0
    verdict,              \* per branch: what its latest classification found
    classCount,           \* per branch: classifications made over all runs
    runClass,             \* classifications made in this run
    runClean,             \* so far in this run: every status "Completed", every save written
    prev,                 \* how the previous run ended
    outcomes,             \* the status each pass of this run returned, in order
    excel,                \* per repository: the create_or_update_excel call of this run
    main_calls,           \* what main did before it built the work list, in order
    last,                 \* the latest classification step of this pass
    decided,              \* branches whose date this pass compared with the threshold
    startK,               \* pages_processed the pass started with
    governed,             \* the governor was called since the pass's latest page request
    requested,            \* branch pages this pass has requested
    page_calls            \* safe_api_call calls this pass made for branch pages

locals == <<repo_checkpoint, attached, processed_branches, stale_branches_info,
            stale_count, default_branch, all_branches, page, current_time,
            branches_to_process, idx, status, result>>
passHist == <<last, decided, startK, governed, requested, page_calls, page_calls>>
runHist == <<runClass, runClean, prev, outcomes, excel, main_calls>>
inputs == <<mode, expected, budget, csv>>
counters == <<run, crashes>>
program == <<mode, expected, budget, csv, file, checkpoint_data, pc, run, crashes, faults,
             repos_to_process, wi, locals, durable, persistedOnce, seen, unsaved,
             fetchFailed, verdict, classCount,
             passHist, runHist>>

(* what get_stale_branches_info returns first: None at line 219, the list  *)
(* stale_branches_info at every other return; get_stale_branch_count_rest  *)
(* returns one value, modelled by status and stale_count                   *)
NoReturn == [kind |-> "unset", info |-> <<>>]
None == [kind |-> "None", info |-> <<>>]
ReturnOf(info) == IF mode = "detail" THEN [kind |-> "info", info |-> info] ELSE NoReturn
EntryFailResult == IF mode = "detail" THEN None ELSE NoReturn
PageFailResultMutNone(info) == EntryFailResult
PageFailResult(info) == ReturnOf(info)

(* main, largefileofstale.py:680-684: the report writer is called with the *)
(* returned list unless the pass returned None                             *)
NoExcel == [r \in Repos |-> [called |-> FALSE, info |-> <<>>]]
ExcelCall(x, r, res) ==
    IF mode = "detail" /\ res.kind = "info"
    THEN [x EXCEPT ![r] = [called |-> TRUE, info |-> res.info]]
    ELSE x

(* the latest save: written, or failed with the map it was given *)
NoLoss == [failed |-> FALSE, data |-> EmptyMap]
SaveResult(data, sv) == IF sv = "ok" THEN NoLoss ELSE [failed |-> TRUE, data |-> data]

NoStep == [outcome |-> "none", branch |-> "none", merged |-> "none", issued |-> <<>>,
           resp |-> AllOk, count0 |-> 0]
NoPrev == [finished |-> FALSE, clean |-> FALSE, classified |-> FALSE,
           records |-> [r \in Repos |-> <<>>]]

repo_full_name == repos_to_process[wi]

(* checkpoint_data as the program sees it: repo_checkpoint is the dict     *)
(* object stored under the repository's key once it is attached            *)
CheckpointDataMutDetached == checkpoint_data
CheckpointData ==
    IF attached THEN [checkpoint_data EXCEPT ![repo_full_name] = repo_checkpoint]
    ELSE checkpoint_data

StaleRecordsOf(f) == [r \in Repos |-> load_checkpoint(f)[r].stale_branches_info]

(* main, largefileofstale.py:628-662 and larrgerepobranches.py:293-318 *)
IsComplete(m, e, data, r) ==
    IF m = "detail"
    THEN data[r].stale_branches_info # <<>> /\ Len(data[r].stale_branches_info) >= e[r]
    ELSE data[r].total_branches > 0
         /\ Len(data[r].processed_branches) >= data[r].total_branches

(* the Stale_Branches cell of an input row in count mode as pd.read_csv    *)
(* gives it: "nan" when the cell is empty or the column is missing, "3"    *)
(* stands for a count                                                      *)
CountCells == {"nan", "Error", "3"}

(* larrgerepobranches.py:315-317 *)
CellNeedsWork(c) == c \in {"nan", "Error", ""}

SelectRepoMutNoCell(m, e, data, r) ==
    IF m = "detail" THEN e[r] # 0 /\ ~IsComplete(m, e, data, r)
    ELSE ~IsComplete(m, e, data, r)
SelectRepo(m, e, data, r) ==
    IF m = "detail" THEN e[r] # 0 /\ ~IsComplete(m, e, data, r)
    ELSE ~IsComplete(m, e, data, r) /\ CellNeedsWork(e[r])

RECURSIVE ReposToProcess(_, _, _, _)
ReposToProcess(m, e, data, rows) ==
    IF rows = <<>> THEN <<>>
    ELSE (IF SelectRepo(m, e, data, Head(rows)) THEN <<Head(rows)>> ELSE <<>>)
         \o ReposToProcess(m, e, data, Tail(rows))

(* ------------- components that are also checked on their own ---------- *)
(* the rate governor, check_rate_limit (largefileofstale.py:53-87)         *)
VARIABLES
    gov_pc,               \* "idle", "request", "decide", "sleeping", "returned"
    gov_resp,             \* the rate_limit request: "200", "other" status, "exc"
    remaining,            \* data['resources']['core']['remaining']
    reset_time,           \* data['resources']['core']['reset'], in seconds
    gov_now,              \* time.time() at line 71, in ticks
    sleep_time,           \* line 72
    slept,                \* seconds slept in the loop of lines 78-79
    gov_result            \* the value returned: "none" yet, "True", "False"

govVars == <<gov_pc, gov_resp, remaining, reset_time, gov_now, sleep_time, slept,
             gov_result>>

(* the request executor, safe_api_call (largefileofstale.py:89-104)        *)
VARIABLES
    exec_pc,              \* "idle", "attempt", "returned"
    retry_count,          \* the parameter of the (recursive) call in progress
    exec_errors,          \* the exception each failed attempt raised, in order
    exec_waits,           \* the waits of line 100, in order, in seconds
    exec_delay,           \* the sleep of line 93 after the response, in ms
    exec_result           \* the value returned

execVars == <<exec_pc, retry_count, exec_errors, exec_waits, exec_delay, exec_result>>

(* the batch scheduler, the loops of main (largefileofstale.py:666-711)    *)
VARIABLES
    sched_pc,             \* "idle", "batch", "repo", "batch_end", "done"
    sched_work,           \* repos_to_process, the repositories numbered in order
    batch,                \* the outer loop variable: 0, BATCH_SIZE, 2 * BATCH_SIZE, ..
    batch_repos,          \* the slice of the work list the inner loop runs over
    sched_i,              \* the inner loop variable i
    batches,              \* the slices taken so far, in order
    sched_log             \* what the loops did, in order

schedVars == <<sched_pc, sched_work, batch, batch_repos, sched_i, batches, sched_log>>

(* the report writing of main (largefileofstale.py:629-751)                *)
VARIABLES
    report_pc,            \* "idle", "start", "pass", "write", "final", "done", "crashed"
    report_data,          \* checkpoint_data of the running process
    report_file,          \* the checkpoint file
    sheets,               \* the repositories check_excel_sheet_exists finds
    report_work,          \* repos_to_process
    report_i,             \* position in report_work
    report_result,        \* what the pass returned: "none", "records", "None"
    excel_updates_needed, \* the list of line 715, what is left of it
    report_run,           \* the number of the run of main
    report_step           \* the report operation of the last step

reportVars == <<report_pc, report_data, report_file, sheets, report_work, report_i,
                report_result, excel_updates_needed, report_run, report_step>>

(* one call of find_last_merged_branch (largefileofstale.py:125-214)       *)
VARIABLES
    merge_pc,             \* "idle", "call", "returned"
    merge_repo,           \* the parameter repo_full_name
    merge_branch,         \* the parameter branch_name
    merge_resp,           \* what each request of the call does
    merge_out             \* the value returned and the requests issued

mergeVars == <<merge_pc, merge_repo, merge_branch, merge_resp, merge_out>>
components == <<govVars, execVars, schedVars, reportVars, mergeVars>>
vars == <<program, components>>

GovIdle ==
    /\ gov_pc = "idle" /\ gov_resp = "none" /\ remaining = 0 /\ reset_time = 0
    /\ gov_now = 0 /\ sleep_time = 0 /\ slept = 0 /\ gov_result = "none"

NoResult == [kind |-> "none", attempt |-> 0, status |-> 0]
ExecIdle ==
    /\ exec_pc = "idle" /\ retry_count = 0 /\ exec_errors = <<>> /\ exec_waits = <<>>
    /\ exec_delay = 0 /\ exec_result = NoResult

SchedIdle ==
    /\ sched_pc = "idle" /\ sched_work = <<>> /\ batch = 0 /\ batch_repos = <<>>
    /\ sched_i = 0 /\ batches = <<>> /\ sched_log = <<>>

NoReport == [op |-> "none", repo |-> "none", success |-> FALSE]
ReportIdle ==
    /\ report_pc = "idle" /\ report_data = EmptyMap /\ report_file = MissingFile
    /\ sheets = {} /\ report_work = <<>> /\ report_i = 0 /\ report_result = "none"
    /\ excel_updates_needed = <<>> /\ report_run = 0 /\ report_step = NoReport

MergeIdle ==
    /\ merge_pc = "idle" /\ merge_repo = "none" /\ merge_branch = "none"
    /\ merge_resp = AllOk /\ merge_out = MergeResult("none", <<>>)

MaxExpected == 2

ProgramStart(allowed) ==
    /\ budget = allowed
    /\ csv \in {"ok", "unreadable", "missing_column"}
    /\ mode \in {"detail", "count"}
    /\ expected \in IF mode = "detail" THEN [Repos -> 0..MaxExpected]
                                        ELSE [Repos -> CountCells]
    /\ file = MissingFile
    /\ durable = EmptyMap
    /\ persistedOnce = {}
    /\ seen = [r \in Repos |-> {}]
    /\ unsaved = NoLoss
    /\ fetchFailed = [b \in BranchNames |-> 0]
    /\ verdict = [b \in BranchNames |-> "none"]
    /\ checkpoint_data = EmptyMap
    /\ pc = "start"
    /\ run = 1 /\ crashes = 0 /\ faults = 0
    /\ repos_to_process = <<>> /\ wi = 1
    /\ repo_checkpoint = EmptyEntry /\ attached = FALSE
    /\ processed_branches = <<>> /\ stale_branches_info = <<>> /\ stale_count = 0
    /\ default_branch = "none" /\ all_branches = <<>> /\ page = 0
    /\ current_time = 0 /\ branches_to_process = <<>> /\ idx = 0 /\ status = "none"
    /\ result = NoReturn /\ excel = NoExcel
    /\ classCount = [b \in BranchNames |-> 0]
    /\ runClass = 0 /\ runClean = TRUE /\ prev = NoPrev /\ outcomes = <<>>
    /\ main_calls = <<>>
    /\ last = NoStep /\ decided = {} /\ startK = 0 /\ requested = {}
    /\ page_calls = 0
    /\ governed = FALSE

ProgramInit == ProgramStart(MaxDisturbances)

Init == ProgramInit /\ GovIdle /\ ExecIdle /\ SchedIdle /\ ReportIdle /\ MergeIdle

ResetLocals ==
    /\ repo_checkpoint' = EmptyEntry /\ attached' = FALSE
    /\ processed_branches' = <<>> /\ stale_branches_info' = <<>> /\ stale_count' = 0
    /\ default_branch' = "none" /\ all_branches' = <<>> /\ page' = 0
    /\ current_time' = 0 /\ branches_to_process' = <<>> /\ idx' = 0 /\ status' = "none"
    /\ result' = NoReturn
    /\ last' = NoStep /\ decided' = {} /\ startK' = 0 /\ requested' = {}
    /\ page_calls' = 0
    /\ governed' = FALSE

(* ------------------------------- main --------------------------------- *)
(* what main does, in order, before it builds the work list                *)
(* (largefileofstale.py:604-626): it returns when pd.read_csv raises or a  *)
(* required column is missing                                              *)
StartCalls(c) ==
    <<"create_session", "load_checkpoint", "check_rate_limit", "read_csv">>
    \o (IF c = "unreadable" THEN <<>> ELSE <<"check_columns">>)

(* the calls of main that send a request *)
NetworkCalls == {"check_rate_limit"}

(* main up to the first repository: load_checkpoint, the governor, the     *)
(* input, the work list                                                    *)
Start ==
    /\ pc = "start"
    /\ main_calls' = StartCalls(csv)
    /\ checkpoint_data' = load_checkpoint(file)
    /\ repos_to_process' =
          IF csv = "ok"
          THEN ReposToProcess(mode, expected, load_checkpoint(file), RepoRows)
          ELSE <<>>
    /\ wi' = 1
    /\ pc' = IF csv # "ok" THEN "stopped"
             ELSE IF repos_to_process' = <<>> THEN "done" ELSE "entry"
    /\ UNCHANGED <<components, inputs, file, durable, persistedOnce, seen, unsaved, fetchFailed, verdict, counters, faults, locals, classCount,
                   passHist, runClass, runClean, prev, outcomes, excel>>

(* the calls a step makes that matter for pacing, in order; governed       *)
(* afterwards: a branch-page request clears it, a governor check sets it   *)
EntryCalls == <<"check_rate_limit">>
PageCallsMutNoGovernor == <<"branch_page", "save_checkpoint">>
PageCalls == <<"branch_page", "save_checkpoint", "check_rate_limit">>
LastPageCalls == <<"branch_page">>

RECURSIVE AfterCalls(_, _)
AfterCalls(g, calls) ==
    IF calls = <<>> THEN g
    ELSE AfterCalls(CASE Head(calls) = "check_rate_limit" -> TRUE
                      [] Head(calls) = "branch_page"      -> FALSE
                      [] OTHER                            -> g,
                    Tail(calls))

(* get_stale_...: the governor check, the checkpoint entry, the early return *)
Entry ==
    /\ pc = "entry"
    /\ governed' = AfterCalls(governed, EntryCalls)
    /\ \E g \in {"ok", "fail"} :
        /\ g = "fail" => crashes + faults < budget
        /\ faults' = IF g = "fail" THEN faults + 1 ELSE faults
        /\ IF g = "fail"
           THEN /\ status' = "Rate Limit Error"
                /\ result' = EntryFailResult
                /\ pc' = "returned"
                /\ UNCHANGED <<repo_checkpoint, attached, processed_branches,
                               stale_branches_info, stale_count, startK>>
           ELSE LET e == checkpoint_data[repo_full_name] IN
                /\ repo_checkpoint' = e
                /\ attached' = (e.keys # {})
                /\ processed_branches' = e.processed_branches
                /\ stale_branches_info' = e.stale_branches_info
                /\ stale_count' = e.stale_count
                /\ startK' = e.pages_processed
                /\ IF mode = "detail" /\ e.stale_branches_info # <<>>
                      /\ EnoughStale(e.stale_branches_info, expected[repo_full_name])
                   THEN /\ status' = "Completed" /\ pc' = "returned"
                        /\ result' = ReturnOf(e.stale_branches_info)
                   ELSE /\ status' = status /\ pc' = "repo_meta"
                        /\ result' = result
    /\ UNCHANGED <<components, inputs, file, durable, persistedOnce, seen, unsaved, fetchFailed, verdict, checkpoint_data, counters, repos_to_process,
                   wi, default_branch, all_branches, page, current_time,
                   branches_to_process, idx, classCount, last, decided, requested,
                   page_calls,
                   runHist>>

(* GET /repos/{id}: the default branch, "main" when the request fails *)
RepoMeta ==
    /\ pc = "repo_meta"
    /\ \E o \in {"ok", "fail"} :
        /\ o = "fail" => crashes + faults < budget
        /\ faults' = IF o = "fail" THEN faults + 1 ELSE faults
        /\ default_branch' = IF o = "ok" THEN RemoteDefaultBranch(repo_full_name)
                             ELSE FallbackDefaultBranch
    /\ page' = StartPage(repo_checkpoint.pages_processed)
    /\ all_branches' = <<>>
    /\ pc' = "fetch_page"
    /\ UNCHANGED <<components, inputs, file, durable, persistedOnce, seen, unsaved, fetchFailed, verdict, checkpoint_data, counters, repos_to_process,
                   wi, repo_checkpoint, attached, processed_branches,
                   stale_branches_info, stale_count, current_time,
                   branches_to_process, idx, status, result, classCount, passHist, runHist>>


(* --------------------------- branch enumerator ------------------------ *)
SaveOutcomes == {"ok", "fail_open", "fail_write"}
Cost(o) == IF o = "ok" THEN 0 ELSE 1

(* after the paging loop: largefileofstale.py:288-298,                     *)
(* larrgerepobranches.py:184-198 (which also caches total_branches)        *)
EndEnumeration(rc1, all1, att1) ==
    \E now \in NowValues :
        LET rc2 == IF mode = "count" /\ "total_branches" \notin rc1.keys
                   THEN [rc1 EXCEPT !.keys = @ \cup {"total_branches"},
                                    !.total_branches = Len(all1)]
                   ELSE rc1
            td  == BranchesToProcess(all1, processed_branches)
        IN  /\ current_time' = now
            /\ repo_checkpoint' = rc2
            /\ all_branches' = all1
            /\ attached' = att1
            /\ branches_to_process' = td
            /\ idx' = 1
            /\ pc' = IF td = <<>> THEN "returned" ELSE "classify"
            /\ status' = IF td = <<>> THEN "Completed" ELSE status
            /\ result' = IF td = <<>> THEN ReturnOf(stale_branches_info) ELSE result

(* what a branch-page request that ended the pass got *)
PageStep(o) == [NoStep EXCEPT !.outcome = "page_" \o o]

PageFailStatusMutError(o) == "Error"
PageFailStatus(o) ==
    CASE o = "none" -> "Connection Error"
      [] o = "404"  -> "Repo Not Found"
      [] OTHER      -> "Error"

(* a branch-page request that fails: the pass returns with its status *)
FetchPageFail ==
    /\ pc = "fetch_page"
    /\ crashes + faults < budget
    /\ \E o \in {"none", "404", "500"} :
          status' = PageFailStatus(o) /\ last' = PageStep(o)
    /\ result' = PageFailResult(stale_branches_info)
    /\ governed' = AfterCalls(governed, LastPageCalls)
    /\ faults' = faults + 1
    /\ requested' = requested \cup {page}
    /\ page_calls' = page_calls + 1
    /\ pc' = "returned"
    /\ UNCHANGED <<components, inputs, file, durable, persistedOnce, seen, unsaved, fetchFailed, verdict, checkpoint_data, counters, repos_to_process,
                   wi, repo_checkpoint, attached, processed_branches,
                   stale_branches_info, stale_count, default_branch, all_branches,
                   page, current_time, branches_to_process, idx, classCount,
                   decided, startK, runHist>>

(* an empty page ends the paging loop *)
FetchPageEmpty ==
    /\ pc = "fetch_page"
    /\ BranchPage(repo_full_name, page) = <<>>
    /\ requested' = requested \cup {page}
    /\ page_calls' = page_calls + 1
    /\ governed' = AfterCalls(governed, LastPageCalls)
    /\ EndEnumeration(repo_checkpoint, all_branches, attached)
    /\ UNCHANGED <<components, inputs, file, durable, persistedOnce, seen, unsaved, fetchFailed, verdict, checkpoint_data, counters, faults,
                   repos_to_process, wi, processed_branches, stale_branches_info,
                   stale_count, default_branch, page, classCount, last, decided,
                   startK, runHist>>

(* a page with branches: merged, pages_processed saved, the governor       *)
(* checked, and in detail mode the paging loop left when the stale records *)
(* already reach the expected count                                        *)
FetchPage ==
    /\ pc = "fetch_page"
    /\ BranchPage(repo_full_name, page) # <<>>
    /\ requested' = requested \cup {page}
    /\ page_calls' = page_calls + 1
    /\ governed' = AfterCalls(governed, PageCalls)
    /\ \E sv \in SaveOutcomes :
        LET rc1   == [repo_checkpoint EXCEPT !.keys = @ \cup {"pages_processed"},
                                             !.pages_processed = page]
            all1  == all_branches \o BranchPage(repo_full_name, page)
            data1 == [checkpoint_data EXCEPT ![repo_full_name] = rc1]
        IN  /\ crashes + faults + Cost(sv) <= budget
            /\ faults' = faults + Cost(sv)
            /\ file' = save_checkpoint(file, data1, sv)
            /\ durable' = IF sv = "ok" THEN data1 ELSE durable
            /\ unsaved' = SaveResult(data1, sv)
            /\ fetchFailed' = fetchFailed
            /\ verdict' = verdict
            /\ persistedOnce' = persistedOnce \cup Written(data1, sv)
            /\ seen' = [seen EXCEPT ![repo_full_name] =
                                @ \cup SeqToSet(BranchPage(repo_full_name, page))]
            /\ runClean' = (runClean /\ sv = "ok")
            /\ page' = page + 1
            /\ IF mode = "detail"
                  /\ EnoughStale(stale_branches_info, expected[repo_full_name])
               THEN EndEnumeration(rc1, all1, TRUE)
               ELSE /\ repo_checkpoint' = rc1
                    /\ all_branches' = all1
                    /\ attached' = TRUE
                    /\ pc' = "fetch_page"
                    /\ UNCHANGED <<current_time, branches_to_process, idx, status, result>>
    /\ UNCHANGED <<components, inputs, checkpoint_data, counters, repos_to_process, wi,
                   processed_branches, stale_branches_info, stale_count,
                   default_branch, classCount, last, decided, startK, runClass, prev, outcomes, excel, main_calls>>

(* ------------------------- staleness classifier ----------------------- *)
branch == branches_to_process[idx]

AfterBranch(i) ==
    /\ idx' = i
    /\ pc' = IF i > Len(branches_to_process) THEN "returned" ELSE "classify"
    /\ status' = IF i > Len(branches_to_process) THEN "Completed" ELSE status
    /\ result' = IF i > Len(branches_to_process) THEN ReturnOf(stale_branches_info)
                                                 ELSE result

Step(o, b, m, iss, resp) ==
    [outcome |-> o, branch |-> b, merged |-> m, issued |-> iss, resp |-> resp,
     count0 |-> stale_count]

Bump(n) == IF n < 2 THEN n + 1 ELSE n

(* the default branch: marked processed in memory, no request, no save *)
SkipDefault ==
    /\ pc = "classify"
    /\ branch = default_branch
    /\ processed_branches' = Append(processed_branches, branch)
    /\ repo_checkpoint' =
          IF "processed_branches" \in repo_checkpoint.keys
          THEN [repo_checkpoint EXCEPT !.processed_branches = Append(@, branch)]
          ELSE repo_checkpoint
    /\ verdict' = [verdict EXCEPT ![branch] = "default"]
    /\ last' = Step("skip_default", branch, "none", <<>>, AllOk)
    /\ AfterBranch(NextIdx(idx))
    /\ UNCHANGED <<components, inputs, file, durable, persistedOnce, seen, unsaved, fetchFailed, checkpoint_data, counters, faults,
                   repos_to_process, wi, attached, stale_branches_info, stale_count,
                   default_branch, all_branches, page, current_time,
                   branches_to_process, classCount, decided, startK, governed, requested, page_calls,
                   runHist>>

(* the commit request returns None or a status other than 200: continue *)
ClassifyFetchFail ==
    /\ pc = "classify"
    /\ branch # default_branch
    /\ crashes + faults < budget
    /\ faults' = faults + 1
    /\ fetchFailed' = [fetchFailed EXCEPT ![branch] = run]
    /\ last' = Step("fetch_fail", branch, "none", <<>>, AllOk)
    /\ AfterBranch(NextIdx(idx))
    /\ UNCHANGED <<components, inputs, file, durable, persistedOnce, seen, unsaved, verdict, checkpoint_data, counters, repos_to_process,
                   wi, repo_checkpoint, attached, processed_branches,
                   stale_branches_info, stale_count, default_branch, all_branches,
                   page, current_time, branches_to_process, classCount, decided,
                   startK, governed, requested, page_calls, runHist>>

(* largefileofstale.py:363-369 / larrgerepobranches.py:243-250 *)
(* mutant: the mark is saved without the count *)
MarkProcessedMutCountLater(b, sc, sv) ==
    LET rc1 == [repo_checkpoint EXCEPT
                   !.keys = @ \cup (IF mode = "count"
                                    THEN {"processed_branches", "stale_count"}
                                    ELSE {"processed_branches"}),
                   !.processed_branches = Append(processed_branches, b)]
        data1 == [checkpoint_data EXCEPT ![repo_full_name] = rc1]
    IN  /\ processed_branches' = Append(processed_branches, b)
        /\ stale_count' = sc
        /\ repo_checkpoint' = rc1
        /\ attached' = TRUE
        /\ file' = save_checkpoint(file, data1, sv)
        /\ durable' = IF sv = "ok" THEN data1 ELSE durable
        /\ unsaved' = SaveResult(data1, sv)
        /\ persistedOnce' = persistedOnce \cup Written(data1, sv)
        /\ seen' = seen
        /\ fetchFailed' = fetchFailed
        /\ runClean' = (runClean /\ sv = "ok")
        /\ faults' = faults + Cost(sv)
MarkProcessed(b, sc, sv) ==
    LET rc1 == [repo_checkpoint EXCEPT
                   !.keys = @ \cup (IF mode = "count"
                                    THEN {"processed_branches", "stale_count"}
                                    ELSE {"processed_branches"}),
                   !.processed_branches = Append(processed_branches, b),
                   !.stale_count = sc]
        data1 == [checkpoint_data EXCEPT ![repo_full_name] = rc1]
    IN  /\ processed_branches' = Append(processed_branches, b)
        /\ stale_count' = sc
        /\ repo_checkpoint' = rc1
        /\ attached' = TRUE
        /\ file' = save_checkpoint(file, data1, sv)
        /\ durable' = IF sv = "ok" THEN data1 ELSE durable
        /\ unsaved' = SaveResult(data1, sv)
        /\ persistedOnce' = persistedOnce \cup Written(data1, sv)
        /\ seen' = seen
        /\ fetchFailed' = fetchFailed
        /\ runClean' = (runClean /\ sv = "ok")
        /\ faults' = faults + Cost(sv)

(* the commit payload has no parsable date: caught, the branch is marked *)
ClassifyParseError ==
    /\ pc = "classify"
    /\ branch # default_branch
    /\ ~ParsedOk(RemoteCommitDate(branch))
    /\ \E sv \in SaveOutcomes :
        /\ crashes + faults + Cost(sv) <= budget
        /\ MarkProcessed(branch, stale_count, sv)
    /\ last' = Step("parse_error", branch, "none", <<>>, AllOk)
    /\ verdict' = [verdict EXCEPT ![branch] = "error"]
    /\ classCount' = [classCount EXCEPT ![branch] = Bump(@)]
    /\ runClass' = Bump(runClass)
    /\ AfterBranch(NextIdx(idx))
    /\ UNCHANGED <<components, inputs, checkpoint_data, counters, repos_to_process, wi,
                   stale_branches_info, default_branch, all_branches, page,
                   current_time, branches_to_process, decided, startK, governed, requested, page_calls,
                   prev, outcomes, excel, main_calls>>

(* a dated commit that needs no record: not stale, or count mode (which    *)
(* only counts)                                                            *)
ClassifyDated ==
    /\ pc = "classify"
    /\ branch # default_branch
    /\ ParsedOk(RemoteCommitDate(branch))
    /\ LET stale == IsStale(current_time, RemoteCommitDate(branch)) IN
        /\ mode = "detail" => ~stale
        /\ \E sv \in SaveOutcomes :
            /\ crashes + faults + Cost(sv) <= budget
            /\ MarkProcessed(branch, IF stale THEN stale_count + 1 ELSE stale_count, sv)
        /\ last' = Step(IF stale THEN "stale" ELSE "not_stale", branch, "none", <<>>, AllOk)
        /\ verdict' = [verdict EXCEPT ![branch] = IF stale THEN "stale" ELSE "fresh"]
    /\ decided' = decided \cup {branch}
    /\ classCount' = [classCount EXCEPT ![branch] = Bump(@)]
    /\ runClass' = Bump(runClass)
    /\ AfterBranch(NextIdx(idx))
    /\ UNCHANGED <<components, inputs, checkpoint_data, counters, repos_to_process, wi,
                   stale_branches_info, default_branch, all_branches, page,
                   current_time, branches_to_process, startK, governed, requested, page_calls, prev, outcomes, excel, main_calls>>

MergeChoices ==
    [pr_search : MergeOutcomes, pr_detail : MergeOutcomes,
     commit_search : MergeOutcomes, repo : MergeOutcomes,
     default_search : MergeOutcomes]

(* detail mode, a stale branch: merge resolution, the record appended and  *)
(* saved, and the early return once the expected count is reached          *)
ClassifyStale ==
    /\ pc = "classify"
    /\ mode = "detail"
    /\ branch # default_branch
    /\ ParsedOk(RemoteCommitDate(branch))
    /\ IsStale(current_time, RemoteCommitDate(branch))
    /\ \E o \in MergeChoices, sv \in SaveOutcomes :
        LET m     == find_last_merged_branch(repo_full_name, branch, o)
            rec   == [branch_name |-> branch,
                      last_commit_date |-> RemoteCommitDate(branch),
                      last_merged_to |-> m.result]
            info1 == Append(stale_branches_info, rec)
            rc1   == [repo_checkpoint EXCEPT
                         !.keys = @ \cup {"stale_branches_info"},
                         !.stale_branches_info = info1]
            data1 == [checkpoint_data EXCEPT ![repo_full_name] = rc1]
        IN  /\ \A k \in DOMAIN o :
                   (\A i \in 1..Len(m.issued) : m.issued[i] # k) => o[k] = "ok"
            /\ crashes + faults + MergeFaults(o, m.issued) + Cost(sv) <= budget
            /\ faults' = faults + MergeFaults(o, m.issued) + Cost(sv)
            /\ stale_branches_info' = info1
            /\ repo_checkpoint' = rc1
            /\ attached' = TRUE
            /\ file' = save_checkpoint(file, data1, sv)
            /\ durable' = IF sv = "ok" THEN data1 ELSE durable
            /\ unsaved' = SaveResult(data1, sv)
            /\ persistedOnce' = persistedOnce \cup Written(data1, sv)
            /\ seen' = seen
            /\ fetchFailed' = fetchFailed
            /\ verdict' = [verdict EXCEPT ![branch] = "stale"]
            /\ runClean' = (runClean /\ sv = "ok")
            /\ IF EnoughStale(info1, expected[repo_full_name])
               THEN /\ pc' = "returned"
                    /\ status' = "Completed"
                    /\ result' = ReturnOf(info1)
                    /\ last' = Step("stale_exit", branch, m.result, m.issued, o)
               ELSE /\ pc' = "mark"
                    /\ status' = status
                    /\ result' = result
                    /\ last' = Step("stale", branch, m.result, m.issued, o)
    /\ decided' = decided \cup {branch}
    /\ classCount' = [classCount EXCEPT ![branch] = Bump(@)]
    /\ runClass' = Bump(runClass)
    /\ UNCHANGED <<components, inputs, checkpoint_data, counters, repos_to_process, wi,
                   processed_branches, stale_count, default_branch, all_branches,
                   page, current_time, branches_to_process, idx, startK, governed, requested, page_calls,
                   prev, outcomes, excel, main_calls>>

(* detail mode, after a stale record was saved: the branch is marked *)
MarkStale ==
    /\ pc = "mark"
    /\ \E sv \in SaveOutcomes :
        /\ crashes + faults + Cost(sv) <= budget
        /\ MarkProcessed(branch, stale_count, sv)
    /\ AfterBranch(NextIdx(idx))
    /\ UNCHANGED <<verdict, components, inputs, checkpoint_data, counters, repos_to_process, wi,
                   stale_branches_info, default_branch, all_branches, page,
                   current_time, branches_to_process, classCount, passHist, runClass,
                   prev, outcomes, excel, main_calls>>

(* ------------------- return to main, crash, restart ------------------- *)
(* where main goes after pass i of len returned st: the loops of main do   *)
(* not look at the status                                                  *)
NextRepoPcMutStopOnFailure(st, i, len) ==
    IF st # "Completed" \/ i + 1 > len THEN "done" ELSE "entry"
NextRepoPc(st, i, len) == IF i + 1 > len THEN "done" ELSE "entry"

(* main after the call: next repository of the work list, or the end *)
Return ==
    /\ pc = "returned"
    /\ checkpoint_data' = CheckpointData
    /\ runClean' = (runClean /\ status = "Completed")
    /\ outcomes' = Append(outcomes, status)
    /\ excel' = ExcelCall(excel, repo_full_name, result)
    /\ wi' = wi + 1
    /\ pc' = NextRepoPc(status, wi, Len(repos_to_process))
    /\ ResetLocals
    /\ UNCHANGED <<components, inputs, file, durable, persistedOnce, seen, unsaved, fetchFailed, verdict, counters, faults, repos_to_process,
                   classCount, runClass, prev, main_calls>>

Running == pc \in {"entry", "repo_meta", "fetch_page", "classify", "mark", "returned"}

(* a save is what the process does next (when its request succeeds) *)
SaveImminent ==
    \/ pc = "fetch_page" /\ BranchPage(repo_full_name, page) # <<>>
    \/ pc = "classify" /\ branch # default_branch
    \/ pc = "mark"

Die ==
    /\ crashes + faults < budget
    /\ crashes' = crashes + 1
    /\ pc' = "crashed"
    /\ checkpoint_data' = EmptyMap
    /\ repos_to_process' = <<>>
    /\ wi' = 1
    /\ ResetLocals
    /\ unsaved' = NoLoss
    /\ UNCHANGED <<components, inputs, run, faults, durable, persistedOnce, seen, fetchFailed, verdict, classCount, runHist>>

(* the process is terminated between two steps *)
Crash ==
    /\ Running
    /\ Die
    /\ file' = file

(* the process is terminated inside save_checkpoint, after open(.., 'w')   *)
(* truncated the file and before json.dump wrote the whole document        *)
CrashDuringSave ==
    /\ Running
    /\ SaveImminent
    /\ Die
    /\ file' = CorruptFile

(* main is started again *)
Restart ==
    /\ pc \in {"done", "crashed", "stopped"}
    /\ run < MaxRuns
    /\ run' = run + 1
    /\ pc' = "start"
    /\ prev' = [finished |-> pc = "done", clean |-> (pc = "done" /\ runClean),
                classified |-> runClass > 0, records |-> StaleRecordsOf(file)]
    /\ runClass' = 0
    /\ runClean' = TRUE
    /\ outcomes' = <<>>
    /\ excel' = NoExcel
    /\ main_calls' = <<>>
    /\ checkpoint_data' = EmptyMap
    /\ repos_to_process' = <<>>
    /\ wi' = 1
    /\ unsaved' = NoLoss
    /\ UNCHANGED <<components, inputs, file, durable, persistedOnce, seen, fetchFailed, verdict, crashes, faults, locals, classCount, passHist>>

Next ==
    \/ Start \/ Entry \/ RepoMeta
    \/ FetchPageFail \/ FetchPageEmpty \/ FetchPage
    \/ SkipDefault \/ ClassifyFetchFail \/ ClassifyParseError
    \/ ClassifyDated \/ ClassifyStale \/ MarkStale
    \/ Return \/ Crash \/ CrashDuringSave \/ Restart

Spec == Init /\ [][Next]_vars

(* the steps of the running process: it is not suspended for ever *)
Advance ==
    \/ Start \/ Entry \/ RepoMeta
    \/ FetchPageFail \/ FetchPageEmpty \/ FetchPage
    \/ SkipDefault \/ ClassifyFetchFail \/ ClassifyParseError
    \/ ClassifyDated \/ ClassifyStale \/ MarkStale
    \/ Return
FairSpec == Spec /\ WF_vars(Advance)

(* the same program in an environment that may disturb it once more *)
DegradedInit ==
    /\ ProgramStart(MaxDisturbances + 1)
    /\ GovIdle /\ ExecIdle /\ SchedIdle /\ ReportIdle /\ MergeIdle
DegradedSpec == DegradedInit /\ [][Next]_vars

(* the program before main starts, for the specifications of one component *)
ProgramParked ==
    /\ ProgramInit
    /\ csv = "ok"
    /\ mode = "detail"
    /\ expected = [r \in Repos |-> 0]

(* ---------------------------- rate governor --------------------------- *)
(* check_rate_limit(session, wait_if_needed=True); every call site passes  *)
(* wait_if_needed = True or leaves the default                             *)
RateFloor == 200
SafetyMargin == 15

NeedsWaitMutLE(r) == r <= RateFloor
NeedsWait(r) == r < RateFloor

(* reset_timestamp - int(time.time()) + 15 *)
SleepTimeMutNoMargin(reset, now) == reset - (now \div TicksPerSecond)
SleepTime(reset, now) == reset - (now \div TicksPerSecond) + SafetyMargin

(* quota values around the floor; clock readings (ticks) and reset times   *)
(* (seconds) that put the reset in the future, at the margin and behind it *)
GovRemaining == {0, 199, 200, 201}
GovNows == {100 * TicksPerSecond, 100 * TicksPerSecond + 1}
GovResets == {84, 85, 86, 88, 100}

GovReturn(v) ==
    /\ gov_result' = v
    /\ gov_pc' = "returned"

(* the request of line 57 and the checks of lines 59-65 *)
GovRequest ==
    /\ gov_pc = "request"
    /\ \E resp \in {"200", "other", "exc"} :
        /\ gov_resp' = resp
        /\ IF resp = "200"
           THEN /\ \E rem \in GovRemaining, rst \in GovResets :
                       remaining' = rem /\ reset_time' = rst
                /\ gov_pc' = "decide"
                /\ gov_result' = gov_result
           ELSE /\ GovReturn("False")
                /\ UNCHANGED <<remaining, reset_time>>
    /\ UNCHANGED <<gov_now, sleep_time, slept, program, execVars, schedVars, reportVars, mergeVars>>

(* lines 69-84 *)
GovDecide ==
    /\ gov_pc = "decide"
    /\ IF NeedsWait(remaining)
       THEN \E now \in GovNows :
               /\ gov_now' = now
               /\ sleep_time' = SleepTime(reset_time, now)
               /\ IF SleepTime(reset_time, now) > 0
                  THEN gov_pc' = "sleeping" /\ gov_result' = gov_result
                  ELSE GovReturn("True")
       ELSE /\ GovReturn("True")
            /\ UNCHANGED <<gov_now, sleep_time>>
    /\ UNCHANGED <<gov_resp, remaining, reset_time, slept, program, execVars, schedVars, reportVars, mergeVars>>

(* one round of the loop of lines 78-79, and the return of line 82 *)
GovSleep ==
    /\ gov_pc = "sleeping"
    /\ slept' = slept + 1
    /\ IF slept + 1 >= sleep_time
       THEN GovReturn("True")
       ELSE gov_pc' = gov_pc /\ gov_result' = gov_result
    /\ UNCHANGED <<gov_resp, remaining, reset_time, gov_now, sleep_time, program, execVars, schedVars, reportVars, mergeVars>>

GovernorInit ==
    /\ ProgramParked
    /\ ExecIdle
    /\ SchedIdle
    /\ ReportIdle
    /\ MergeIdle
    /\ gov_pc = "request" /\ gov_resp = "none" /\ remaining = 0 /\ reset_time = 0
    /\ gov_now = 0 /\ sleep_time = 0 /\ slept = 0 /\ gov_result = "none"

GovernorNext == GovRequest \/ GovDecide \/ GovSleep

GovernorSpec == GovernorInit /\ [][GovernorNext]_vars

(* --------------------------- request executor ------------------------- *)
(* safe_api_call(session, url, retry_count=0)                              *)
MAX_RETRIES == 5
API_CALL_DELAY == 200     \* milliseconds (0.2 s)

(* the sleep, in ms, between the response of a request of                 *)
(* find_last_merged_branch and the next statement: time.sleep follows the  *)
(* requests of lines 133, 146 and 163, nothing follows those of 192, 202   *)
DelayAfter(req) ==
    CASE req = "pr_search"      -> API_CALL_DELAY
      [] req = "pr_detail"      -> API_CALL_DELAY
      [] req = "commit_search"  -> API_CALL_DELAY
      [] req = "repo"           -> 0
      [] req = "default_search" -> 0

(* wait_time = 5 * (2 ** retry_count) *)
BackoffWaitMutLinear(n) == 5 * (n + 1)
BackoffWait(n) == 5 * (2 ^ n)

MayRetryMutLE(n) == n <= MAX_RETRIES
MayRetry(n) == n < MAX_RETRIES

(* the exceptions of the except clause and the statuses a response carries *)
ExecErrors == {"SSLError", "ConnectionError", "Timeout"}
ExecStatuses == {200, 404, 500}

(* session.get returns a response: the delay, then the response is returned *)
ExecResponse ==
    /\ exec_pc = "attempt"
    /\ \E st \in ExecStatuses :
          exec_result' = [kind |-> "response", attempt |-> retry_count, status |-> st]
    /\ exec_delay' = API_CALL_DELAY
    /\ exec_pc' = "returned"
    /\ UNCHANGED <<retry_count, exec_errors, exec_waits, program, govVars, schedVars, reportVars, mergeVars>>

(* session.get raises and retries are left: the wait, then the call again *)
ExecRetry ==
    /\ exec_pc = "attempt"
    /\ MayRetry(retry_count)
    /\ \E e \in ExecErrors : exec_errors' = Append(exec_errors, e)
    /\ exec_waits' = Append(exec_waits, BackoffWait(retry_count))
    /\ retry_count' = retry_count + 1
    /\ UNCHANGED <<exec_pc, exec_delay, exec_result, program, govVars, schedVars, reportVars, mergeVars>>

(* session.get raises and no retry is left: None *)
ExecGiveUp ==
    /\ exec_pc = "attempt"
    /\ ~MayRetry(retry_count)
    /\ \E e \in ExecErrors : exec_errors' = Append(exec_errors, e)
    /\ exec_result' = [kind |-> "null", attempt |-> retry_count, status |-> 0]
    /\ exec_pc' = "returned"
    /\ UNCHANGED <<retry_count, exec_waits, exec_delay, program, govVars, schedVars, reportVars, mergeVars>>

ExecutorInit ==
    /\ ProgramParked
    /\ GovIdle
    /\ SchedIdle
    /\ ReportIdle
    /\ MergeIdle
    /\ exec_pc = "attempt" /\ retry_count = 0 /\ exec_errors = <<>>
    /\ exec_waits = <<>> /\ exec_delay = 0 /\ exec_result = NoResult

ExecutorNext == ExecResponse \/ ExecRetry \/ ExecGiveUp

(* the one thread of the program keeps running *)
ExecutorSpec == ExecutorInit /\ [][ExecutorNext]_vars /\ WF_vars(ExecutorNext)

(* ---------------------------- batch scheduler ------------------------- *)
(* main, largefileofstale.py:666-711 and larrgerepobranches.py:322-362     *)
BATCH_SIZE == 5
BATCH_BREAK == 120
MaxWork == 11           \* longest work list of the scheduler's own check

(* repos_to_process[batch:batch + BATCH_SIZE] *)
Slice(list, from) == SubSeq(list, from + 1, Min(from + BATCH_SIZE, Len(list)))

(* if i < len(batch_repos) - 1 *)
ShortBreakDueMutAlways(i, len) == TRUE
ShortBreakDue(i, len) == i < len - 1

(* if batch + BATCH_SIZE < len(repos_to_process) *)
LongBreakDue(b, len) == b + BATCH_SIZE < len

Event(e, a) == [ev |-> e, arg |-> a]
Pause(seconds) == <<Event("sleep", seconds), Event("check_rate_limit", 0)>>

(* range(0, len(repos_to_process), BATCH_SIZE): the next batch, or the end *)
SchedBatch ==
    /\ sched_pc = "batch"
    /\ IF batch < Len(sched_work)
       THEN /\ batch_repos' = Slice(sched_work, batch)
            /\ batches' = Append(batches, Slice(sched_work, batch))
            /\ sched_i' = 0
            /\ sched_pc' = "repo"
       ELSE /\ sched_pc' = "done"
            /\ UNCHANGED <<batch_repos, batches, sched_i>>
    /\ UNCHANGED <<sched_work, batch, sched_log, program, govVars, execVars, reportVars, mergeVars>>

(* one round of the inner loop: the repository, then the short break *)
SchedRepo ==
    /\ sched_pc = "repo"
    /\ sched_log' = sched_log \o <<Event("repo", batch_repos[sched_i + 1])>>
                     \o (IF ShortBreakDue(sched_i, Len(batch_repos))
                         THEN Pause(10) ELSE <<>>)
    /\ sched_i' = sched_i + 1
    /\ sched_pc' = IF sched_i + 1 < Len(batch_repos) THEN "repo" ELSE "batch_end"
    /\ UNCHANGED <<sched_work, batch, batch_repos, batches, program, govVars, execVars, reportVars, mergeVars>>

(* after the inner loop: the long break when another batch follows *)
SchedBatchEnd ==
    /\ sched_pc = "batch_end"
    /\ sched_log' = sched_log \o (IF LongBreakDue(batch, Len(sched_work))
                                   THEN Pause(BATCH_BREAK) ELSE <<>>)
    /\ batch' = batch + BATCH_SIZE
    /\ sched_pc' = "batch"
    /\ UNCHANGED <<sched_work, batch_repos, sched_i, batches, program, govVars, execVars, reportVars, mergeVars>>

SchedulerInit ==
    /\ ProgramParked
    /\ GovIdle
    /\ ExecIdle
    /\ ReportIdle
    /\ MergeIdle
    /\ sched_pc = "batch"
    /\ \E n \in 0..MaxWork : sched_work = [k \in 1..n |-> k]
    /\ batch = 0 /\ batch_repos = <<>> /\ sched_i = 0
    /\ batches = <<>> /\ sched_log = <<>>

SchedulerNext == SchedBatch \/ SchedRepo \/ SchedBatchEnd

SchedulerSpec == SchedulerInit /\ [][SchedulerNext]_vars

(* ---------------------------- report writer --------------------------- *)
(* main's handling of the Excel report (largefileofstale.py:629-751): the  *)
(* screening of the rows, the sheet written after each pass, the final     *)
(* loop over the repositories that need an update.  Every row expects as   *)
(* many stale branches as ReportRecords holds.                             *)
ReportRecords(r) ==
    <<[branch_name |-> RemoteBranches(r)[2],
       last_commit_date |-> RemoteCommitDate(RemoteBranches(r)[2]),
       last_merged_to |-> "Unknown"]>>

(* line 649: the repository is already processed in the checkpoint *)
ReportScreened(data, r) ==
    /\ data[r].stale_branches_info # <<>>
    /\ Len(data[r].stale_branches_info) >= Len(ReportRecords(r))

(* lines 718-721: the repository needs an Excel update *)
NeedsUpdate(data, sh, r) ==
    \/ data[r].needs_excel_update
    \/ data[r].stale_branches_info # <<>> /\ r \notin sh

RECURSIVE ReportFilter(_, _)
ReportFilter(rows, keep) ==
    IF rows = <<>> THEN <<>>
    ELSE (IF Head(rows) \in keep THEN <<Head(rows)>> ELSE <<>>)
            \o ReportFilter(Tail(rows), keep)

(* check_excel_sheet_exists after a successful create_or_update_excel: the *)
(* sheet has data when there is at least one record (max_row > 5)          *)
SheetsAfter(sh, r, info) == IF info # <<>> THEN sh \cup {r} ELSE sh

ReportOp(o, r, ok) == [op |-> o, repo |-> r, success |-> ok]

(* lines 606 and 629-664: load the checkpoint, screen the rows; a screened *)
(* row without a sheet gets one (the result of the call is not looked at)  *)
ReportStart ==
    /\ report_pc = "start"
    /\ report_data' = load_checkpoint(report_file)
    /\ \E oks \in SUBSET {r \in Repos : ReportScreened(report_data', r) /\ r \notin sheets} :
          sheets' = sheets \cup oks
    /\ report_work' = ReportFilter(RepoRows, {r \in Repos : ~ReportScreened(report_data', r)})
    /\ report_i' = 1
    /\ report_pc' = IF report_work' = <<>> THEN "check" ELSE "pass"
    /\ report_step' = ReportOp("screen", "none", TRUE)
    /\ UNCHANGED <<report_file, report_result, excel_updates_needed, report_run,
                   program, govVars, execVars, schedVars, mergeVars>>

(* line 680: get_stale_branches_info returns the records, which it stored  *)
(* in the entry it took from checkpoint_data (lines 222, 352-354), or None  *)
ReportPass ==
    /\ report_pc = "pass"
    /\ LET r == report_work[report_i] IN
       \E res \in {"records", "None"}, sv \in SaveOutcomes :
          /\ res = "None" => sv = "fail_open"
          /\ report_data' =
                IF res = "records"
                THEN [report_data EXCEPT
                        ![r].stale_branches_info = ReportRecords(r),
                        ![r].keys = @ \cup {"stale_branches_info"}]
                ELSE report_data
          /\ report_file' = save_checkpoint(report_file, report_data', sv)
          /\ report_result' = res
          /\ report_step' = ReportOp("crawl", r, res = "records")
    /\ report_pc' = "write"
    /\ UNCHANGED <<sheets, report_work, report_i, excel_updates_needed, report_run,
                   program, govVars, execVars, schedVars, mergeVars>>

(* lines 682-694: write the sheet; when that fails set needs_excel_update  *)
(* in the entry and save                                                   *)
ReportWrite ==
    /\ report_pc = "write"
    /\ LET r == report_work[report_i] IN
       \E ok \in BOOLEAN, sv \in SaveOutcomes :
          /\ (report_result = "None" \/ ok) => sv = "fail_open"
          /\ report_result = "None" => ok
          /\ sheets' = IF report_result = "records" /\ ok
                       THEN SheetsAfter(sheets, r, report_data[r].stale_branches_info)
                       ELSE sheets
          /\ report_data' =
                IF report_result = "records" /\ ~ok
                THEN [report_data EXCEPT
                        ![r].needs_excel_update = TRUE,
                        ![r].keys = @ \cup {"needs_excel_update"}]
                ELSE report_data
          /\ report_file' = IF report_result = "records" /\ ~ok
                            THEN save_checkpoint(report_file, report_data', sv)
                            ELSE report_file
          /\ report_step' = IF report_result = "records"
                            THEN ReportOp("write", r, ok)
                            ELSE ReportOp("skip", r, TRUE)
    /\ report_i' = report_i + 1
    /\ report_pc' = IF report_i + 1 > Len(report_work) THEN "check" ELSE "pass"
    /\ report_result' = "none"
    /\ UNCHANGED <<report_work, excel_updates_needed, report_run,
                   program, govVars, execVars, schedVars, mergeVars>>

(* lines 713-723: collect the repositories that need an Excel update *)
ReportCheck ==
    /\ report_pc = "check"
    /\ excel_updates_needed' =
          ReportFilter(RepoRows, {r \in Repos : NeedsUpdate(report_data, sheets, r)})
    /\ report_pc' = IF excel_updates_needed' = <<>> THEN "done" ELSE "final"
    /\ report_step' = ReportOp("check", "none", TRUE)
    /\ UNCHANGED <<report_data, report_file, sheets, report_work, report_i,
                   report_result, report_run, program, govVars, execVars, schedVars, mergeVars>>

(* lines 728-751: regenerate the sheet of the next listed repository; on   *)
(* success clear the flag and save                                         *)
ReportRegenerate ==
    /\ report_pc = "final"
    /\ LET r == Head(excel_updates_needed) IN
       \E ok \in BOOLEAN, sv \in SaveOutcomes :
          /\ ~ok => sv = "fail_open"
          /\ sheets' = IF ok
                       THEN SheetsAfter(sheets, r, report_data[r].stale_branches_info)
                       ELSE sheets
          /\ report_data' =
                IF ok
                THEN [report_data EXCEPT
                        ![r].needs_excel_update = FALSE,
                        ![r].keys = @ \cup {"needs_excel_update"}]
                ELSE report_data
          /\ report_file' = IF ok THEN save_checkpoint(report_file, report_data', sv)
                            ELSE report_file
          /\ report_step' = ReportOp("regenerate", r, ok)
    /\ excel_updates_needed' = Tail(excel_updates_needed)
    /\ report_pc' = IF excel_updates_needed' = <<>> THEN "done" ELSE "final"
    /\ UNCHANGED <<report_work, report_i, report_result, report_run,
                   program, govVars, execVars, schedVars, mergeVars>>

ReportRunning == report_pc \in {"start", "pass", "write", "check", "final"}

ReportDie ==
    /\ ReportRunning
    /\ report_pc' = "crashed"
    /\ report_data' = EmptyMap
    /\ report_work' = <<>>
    /\ report_i' = 0
    /\ report_result' = "none"
    /\ excel_updates_needed' = <<>>
    /\ report_step' = ReportOp("crash", "none", TRUE)
    /\ UNCHANGED <<sheets, report_run, program, govVars, execVars, schedVars, mergeVars>>

(* the process is terminated between two steps *)
ReportCrash == ReportDie /\ report_file' = report_file

(* the process is terminated inside save_checkpoint, between the           *)
(* truncation of open(.., 'w') and the end of json.dump                    *)
ReportCrashDuringSave ==
    /\ report_pc \in {"pass", "write", "final"}
    /\ ReportDie
    /\ report_file' = CorruptFile

(* main is started again *)
ReportRestart ==
    /\ report_pc \in {"done", "crashed"}
    /\ report_run < MaxRuns
    /\ report_run' = report_run + 1
    /\ report_pc' = "start"
    /\ report_data' = EmptyMap
    /\ report_work' = <<>>
    /\ report_i' = 0
    /\ report_result' = "none"
    /\ excel_updates_needed' = <<>>
    /\ report_step' = ReportOp("restart", "none", TRUE)
    /\ UNCHANGED <<report_file, sheets, program, govVars, execVars, schedVars, mergeVars>>

ReportInit ==
    /\ ProgramParked
    /\ GovIdle
    /\ ExecIdle
    /\ SchedIdle
    /\ MergeIdle
    /\ report_pc = "start" /\ report_data = EmptyMap /\ report_file = MissingFile
    /\ sheets = {} /\ report_work = <<>> /\ report_i = 0 /\ report_result = "none"
    /\ excel_updates_needed = <<>> /\ report_run = 1 /\ report_step = NoReport

ReportNext ==
    \/ ReportStart \/ ReportPass \/ ReportWrite \/ ReportCheck \/ ReportRegenerate
    \/ ReportCrash \/ ReportCrashDuringSave \/ ReportRestart

ReportSpec == ReportInit /\ [][ReportNext]_vars

(* --------------------------- merge resolver --------------------------- *)
(* find_last_merged_branch called for a branch of a repository, every      *)
(* request of the call answering in one of the three ways                  *)
MergeCall ==
    /\ merge_pc = "call"
    /\ merge_out' = find_last_merged_branch(merge_repo, merge_branch, merge_resp)
    /\ merge_pc' = "returned"
    /\ UNCHANGED <<merge_repo, merge_branch, merge_resp, program, govVars, execVars,
                   schedVars, reportVars>>

MergeInit ==
    /\ ProgramParked
    /\ GovIdle
    /\ ExecIdle
    /\ SchedIdle
    /\ ReportIdle
    /\ merge_pc = "call"
    /\ merge_repo \in Repos
    /\ merge_branch \in SeqToSet(RemoteBranches(merge_repo))
    /\ merge_resp \in MergeChoices
    /\ merge_out = MergeResult("none", <<>>)

MergeNext == MergeCall

MergeSpec == MergeInit /\ [][MergeNext]_vars

(* needs_excel_update of r as the program has it: in the checkpoint_data   *)
(* of the running process, in the file when no process runs               *)
ReportFlag(r) ==
    IF report_pc \in {"start", "done", "crashed"}
    THEN load_checkpoint(report_file)[r].needs_excel_update
    ELSE report_data[r].needs_excel_update


(* ============================== claims ================================ *)
Persisted(r) == load_checkpoint(file)[r]
NonDefaultBranches(r) == SeqToSet(RemoteBranches(r)) \ {RemoteDefaultBranch(r)}
InPass == pc \in {"repo_meta", "fetch_page", "classify", "mark", "returned"}
Classifying == pc \in {"classify", "mark"}
OlderThan90Days(b) ==
    current_time - RemoteCommitDate(b) * TicksPerSecond > 7776000 * TicksPerSecond
(* the governor returned after a 200 answer *)
C12_Answered == gov_pc = "returned" /\ gov_resp = "200"
(* the pass has just ended on a branch-page request that got no response,  *)
(* resp. a 404                                                             *)
C17_NullOnPage == pc = "returned" /\ last.outcome = "page_none"
C18_NotFoundOnPage == pc = "returned" /\ last.outcome = "page_404"
(* the file holds the checkpoint the process has in memory *)
FileUpToDate == load_checkpoint(file) = CheckpointData
(* what C17 says of the state after the abort on page `page` *)
C17_AfterAbort ==
    /\ status = "Connection Error"
    /\ Persisted(repo_full_name).pages_processed = page - 1
    /\ Persisted(repo_full_name).processed_branches = processed_branches
    /\ Persisted(repo_full_name).stale_branches_info = stale_branches_info
    /\ StartPage(Persisted(repo_full_name).pages_processed) = page
    /\ repo_full_name \in
          SeqToSet(ReposToProcess(mode, expected, load_checkpoint(file), RepoRows))
(* a branch-page request ends the pass with outcome o *)
PageAbortStep(o) == pc = "fetch_page" /\ pc' = "returned" /\ last'.outcome = o
(* the scheduler's log: the positions of repository events, the          *)
(* concatenation of the batches                                            *)
C19_RepoAt(p) == sched_log[p].ev = "repo"
RECURSIVE C19_Flatten(_)
C19_Flatten(bs) == IF bs = <<>> THEN <<>> ELSE Head(bs) \o C19_Flatten(Tail(bs))
(* main has just built the work list from the checkpoint it loaded *)
C20_ListBuilt == pc = "start" /\ pc' \in {"entry", "done"}
(* complete as the claim defines it, for the entry ck of a repository r;   *)
(* an entry without total_branches is not complete                         *)
C20_Complete(ck, r) ==
    IF mode = "detail"
    THEN Len(ck.stale_branches_info) >= expected[r]
    ELSE "total_branches" \in ck.keys /\ Len(ck.processed_branches) = ck.total_branches
(* complete as main tests it *)
C20_CompleteInCode(ck, r) ==
    IF mode = "detail"
    THEN Len(ck.stale_branches_info) >= expected[r]
    ELSE /\ "total_branches" \in ck.keys
         /\ ck.total_branches # 0
         /\ Len(ck.processed_branches) >= ck.total_branches
C20_InList(r) == \E i \in 1..Len(repos_to_process') : repos_to_process'[i] = r
(* requests are made for the repository at position wi of the work list,   *)
(* and the list stays as built until the run ends                          *)
C20_OnlyListed ==
    /\ [](InPass => wi \in 1..Len(repos_to_process))
    /\ [][pc \notin {"start", "done", "crashed"} /\ pc' # "crashed"
            => repos_to_process' = repos_to_process]_vars
(* how often name b is in the list *)
Occurrences(list, b) == Cardinality({i \in 1..Len(list) : list[i] = b})
(* the non-default branches of r whose last commit is older than 90 days   *)
(* at time now (ticks)                                                     *)
C25_RealStale(r, now) ==
    {b \in NonDefaultBranches(r) :
        /\ RemoteCommitDate(b) # Malformed
        /\ now - RemoteCommitDate(b) * TicksPerSecond > 7776000 * TicksPerSecond}
(* a first run in which nothing failed *)
C25_FreshAndClean == mode = "detail" /\ run = 1 /\ crashes = 0 /\ faults = 0
(* what the steps of the returned call found: step 1 a base branch, step 2 *)
(* a merge target, step 3 commits naming the default branch                *)
C27_Step1Found ==
    /\ merge_resp.pr_search = "ok" /\ RemotePrBase(merge_branch) # NoRef
    /\ merge_resp.pr_detail = "ok"
C27_Step2Found ==
    merge_resp.commit_search = "ok" /\ RemoteMergeCommitTarget(merge_branch) # NoRef
C27_Step3Found ==
    /\ merge_resp.repo = "ok" /\ merge_resp.default_search = "ok"
    /\ RemoteMentionsDefault(merge_branch)
C27_Issued(q) == \E i \in 1..Len(merge_out.issued) : merge_out.issued[i] = q
(* a request of the call raised *)
C27_Raised ==
    \E i \in 1..Len(merge_out.issued) : merge_resp[merge_out.issued[i]] = "exc"
C27_Rank(q) ==
    CASE q = "pr_search" -> 1 [] q = "pr_detail" -> 2 [] q = "commit_search" -> 3
      [] q = "repo" -> 4 [] OTHER -> 5
(* no two records of the list have the same branch_name *)
C29_NoDuplicates(info) ==
    \A i, j \in 1..Len(info) : info[i].branch_name = info[j].branch_name => i = j
(* the list a still holds, unchanged and in place, in the list b *)
C29_Kept(a, b) == Len(a) <= Len(b) /\ \A i \in 1..Len(a) : b[i] = a[i]
(* the statuses with which a failed branch-page request ends the pass *)
C30_PageFailure == {"Connection Error", "Repo Not Found", "Error"}
(* the step the pass takes next issues a network request *)
C31_RequestNext ==
    \/ pc \in {"repo_meta", "fetch_page"}
    \/ pc = "classify" /\ branch # default_branch
(* the entry of the repository in the file has what the pass holds in memory *)
C31_EntrySaved ==
    /\ Persisted(repo_full_name).processed_branches = processed_branches
    /\ Persisted(repo_full_name).stale_branches_info = stale_branches_info
    /\ Persisted(repo_full_name).pages_processed = repo_checkpoint.pages_processed
    /\ Persisted(repo_full_name).total_branches = repo_checkpoint.total_branches
(* the entry b holds everything the entry a holds *)
C32_Holds(a, b) ==
    /\ C29_Kept(a.processed_branches, b.processed_branches)
    /\ C29_Kept(a.stale_branches_info, b.stale_branches_info)
    /\ a.pages_processed <= b.pages_processed
    /\ a.keys \subseteq b.keys
(* the process goes on after this step *)
C32_GoesOn == pc' \notin {"crashed", "start", "stopped"}
(* the repository a branch belongs to *)
RepoOf(b) == CHOOSE r \in Repos : b \in SeqToSet(RemoteBranches(r))
(* this step is a commit request that fails *)
C33_FetchFails == pc = "classify" /\ fetchFailed' # fetchFailed
(* a run after the one in which the commit request of b failed has ended,  *)
(* every pass of it completed and every write written; it worked on the    *)
(* repository of b and did not stop there at the expected count            *)
C33_LaterRunDone(b) ==
    /\ pc = "done" /\ runClean
    /\ fetchFailed[b] \in 1..(run - 1)
    /\ \E i \in 1..Len(repos_to_process) : repos_to_process[i] = RepoOf(b)
    /\ mode = "detail" =>
          Len(Persisted(RepoOf(b)).stale_branches_info) < expected[RepoOf(b)]
(* the paging of the pass is over and no empty page was requested *)
C34_StoppedAtCheck ==
    /\ mode = "detail"
    /\ pc \in {"classify", "mark", "returned"}
    /\ requested # {}
    /\ status \notin C30_PageFailure
    /\ \A p \in requested : BranchPage(repo_full_name, p) # <<>>
(* a pass ended in a failure status *)
C21_Failed(st) ==
    st \in {"Connection Error", "Repo Not Found", "Error", "Rate Limit Error"}
(* a repository whose branches a finished run has to have classified *)
C1_InScope(r) ==
    \/ mode = "count" /\ CellNeedsWork(expected[r])
    \/ /\ mode = "detail"
       /\ expected[r] > 0
       /\ Len(Persisted(r).stale_branches_info) < expected[r]
(* a branch with a merged pull request and a merge commit; the result of  *)
(* the pull-request step                                                   *)
C8_HasBoth(b) == RemotePrBase(b) # NoRef /\ RemoteMergeCommitTarget(b) # NoRef
C8_PrResult ==
    /\ last.merged = RemotePrBase(last.branch)
    /\ last.issued = <<"pr_search", "pr_detail">>
(* the latest step got the commit payload of a branch with a malformed date *)
C9_Taken ==
    /\ last.branch # "none"
    /\ RemoteCommitDate(last.branch) = Malformed
    /\ last.outcome \notin {"none", "fetch_fail", "skip_default"}

(* C1: after any terminations and restarts, when a run finishes (and no    *)
(* request or save failed), every non-default branch of every repository   *)
(* of the work list was classified exactly once.  A detail-mode repository *)
(* that reached its expected count is left out: there the classifier stops *)
(* early by design.                                                        *)
C1_EveryBranchClassifiedOnce ==
    (pc = "done" /\ faults = 0) =>
        \A r \in Repos : C1_InScope(r) =>
            \A b \in NonDefaultBranches(r) : classCount[b] = 1

(* C2: a name that a completed save has written in processed_branches is   *)
(* never classified again (commit fetch, staleness decision, merge         *)
(* resolution), in the same run or in any run started later.               *)
C2_NeverReclassified ==
    (Classifying /\ branch # default_branch) => branch \notin persistedOnce
(* C2, what the filter keeps: a branch the classifier is about to classify *)
(* is not in the processed_branches the checkpoint file holds now.         *)
C2_ProcessedNeverReclassified ==
    (Classifying /\ branch # default_branch) =>
        branch \notin SeqToSet(Persisted(repo_full_name).processed_branches)
C2_Witness ==
    /\ pc = "classify"
    /\ branch # default_branch
    /\ Persisted(repo_full_name).processed_branches # <<>>
    /\ last.outcome \in {"not_stale", "stale", "parse_error"}

(* C3: a pass that starts with pages_processed = k requests page k+1       *)
(* first and never requests a page in 1..k.                                *)
C3_ResumeAtNextPage ==
    /\ \A p \in requested : p > startK
    /\ (pc = "fetch_page" /\ requested = {}) => page = startK + 1
C3_Witness ==
    /\ startK >= 1
    /\ requested # {}
    /\ pc = "fetch_page"

C5_DefaultNeverStale ==
    /\ \A r \in Repos :
          RemoteDefaultBranch(r) \notin StaleNames(Persisted(r).stale_branches_info)
    /\ InPass => RemoteDefaultBranch(repo_full_name) \notin StaleNames(stale_branches_info)
    /\ last.outcome \in {"stale", "stale_exit"} =>
          last.branch \notin {RemoteDefaultBranch(r) : r \in Repos}

(* C6: with the one value of now taken when the enumeration ended, every   *)
(* branch whose date was compared in this pass is classified stale iff     *)
(* now - t > 7,776,000 s (detail: it has a record; count: stale_count grew *)
(* by the number of such branches).                                        *)
C6_StaleIffOlderThan90Days ==
    (pc \in {"classify", "mark", "returned"} /\ current_time # 0) =>
        /\ mode = "detail" =>
              \A b \in decided :
                  (b \in StaleNames(stale_branches_info)) <=> OlderThan90Days(b)
        /\ mode = "count" =>
              stale_count = checkpoint_data[repo_full_name].stale_count
                            + Cardinality({b \in decided : OlderThan90Days(b)})
C6_Witness ==
    /\ "edge" \in decided
    /\ current_time = (RemoteCommitDate("edge") + 7776000) * TicksPerSecond
    /\ last.branch = "edge"
    /\ last.outcome = "not_stale"

(* C7: detail mode: whenever the process is about to issue a branch-page,  *)
(* commit or merge-search request for a repository, stale_branches_info    *)
(* holds fewer records than expected_stale_count.                          *)
C7_EarlyExit ==
    (mode = "detail" /\ pc \in {"fetch_page", "classify", "mark"}) =>
        Len(stale_branches_info) < expected[repo_full_name]
C7_Witness ==
    /\ pc = "returned"
    /\ last.outcome = "stale_exit"
    /\ idx < Len(branches_to_process)
    /\ Len(stale_branches_info) >= expected[repo_full_name]

(* C8 as claimed (detail mode): a stale branch with a merged pull request  *)
(* and a merge commit gets the pull request's base, and neither the commit *)
(* search nor the default-branch step is issued.                           *)
C8_PrTakesPriority ==
    (/\ mode = "detail"
     /\ last.outcome \in {"stale", "stale_exit"}
     /\ C8_HasBoth(last.branch)) => C8_PrResult
(* C8 amended: the same, when the pull-request search and the pull-request *)
(* detail request both return status 200.                                  *)
C8_PrTakesPriorityWhenAnswered ==
    (/\ mode = "detail"
     /\ last.outcome \in {"stale", "stale_exit"}
     /\ C8_HasBoth(last.branch)
     /\ last.resp.pr_search = "ok"
     /\ last.resp.pr_detail = "ok") => C8_PrResult
C8_Witness ==
    /\ last.outcome \in {"stale", "stale_exit"}
    /\ last.branch = "feat-a"
    /\ last.merged = "main"
    /\ last.issued = <<"pr_search", "pr_detail">>

(* C9: a branch whose commit payload has a malformed date, once its commit *)
(* fetch succeeded, is in processed_branches, has no stale record, leaves  *)
(* stale_count as it was, and the loop goes on with the next branch.       *)
C9_ParseErrorMarked ==
    C9_Taken =>
        /\ last.branch \in SeqToSet(processed_branches)
        /\ last.branch \in SeqToSet(repo_checkpoint.processed_branches)
        /\ last.branch \notin StaleNames(stale_branches_info)
        /\ stale_count = last.count0
        /\ idx > 1 /\ branches_to_process[idx - 1] = last.branch
        /\ \/ pc = "classify"
           \/ pc = "returned" /\ status = "Completed" /\ idx = Len(branches_to_process) + 1
C9_Witness ==
    /\ C9_Taken
    /\ last.outcome = "parse_error"
    /\ "bad" \in SeqToSet(Persisted("r2").processed_branches)

(* C10: after a termination (no request or save failed), the checkpoint    *)
(* the next run loads holds everything the last completed save wrote.      *)
C10_CrashKeepsProgress ==
    (pc = "crashed" /\ faults = 0) => load_checkpoint(file) = durable

(* C11: with a missing or unparsable checkpoint file, load_checkpoint      *)
(* returns the empty map without raising (main goes on from "start"), and  *)
(* the run is a crawl from scratch: every row with work to do is in the    *)
(* work list, the first pass has an empty checkpoint entry and requests    *)
(* page 1 first.                                                           *)
C11_LoadFallsBackToEmpty ==
    /\ load_checkpoint(MissingFile) = EmptyMap
    /\ load_checkpoint(CorruptFile) = EmptyMap
    /\ pc = "start" => ENABLED Start
    /\ (file.state # "ok" /\ wi = 1) =>
          /\ pc = "entry" =>
                /\ checkpoint_data = EmptyMap
                /\ \A r \in Repos :
                      \/ mode = "detail" /\ expected[r] = 0
                      \/ mode = "count" /\ ~CellNeedsWork(expected[r])
                      \/ r \in SeqToSet(repos_to_process)
          /\ pc = "repo_meta" => repo_checkpoint = EmptyEntry
          /\ (pc = "fetch_page" /\ requested = {}) => page = 1
C11_Witness ==
    /\ run = 2 /\ file.state = "corrupt" /\ wi = 1
    /\ pc = "fetch_page" /\ requested = {} /\ page = 1

(* C12 as claimed: a quota at or above 200 returns success without         *)
(* sleeping; a quota below 200 sleeps reset_time - now + 15 seconds (now   *)
(* in whole seconds) and returns success.                                  *)
C12_EnsureCapacity ==
    C12_Answered =>
        /\ gov_result = "True"
        /\ remaining >= 200 => slept = 0
        /\ remaining < 200 =>
              slept = reset_time - (gov_now \div TicksPerSecond) + 15
(* C12 amended: below 200 it sleeps reset_time - now + 15 seconds when     *)
(* that is positive, and does not sleep when it is zero or negative.       *)
C12_EnsureCapacityWhenResetAhead ==
    C12_Answered =>
        /\ gov_result = "True"
        /\ remaining >= 200 => slept = 0
        /\ remaining < 200 =>
              LET d == reset_time - (gov_now \div TicksPerSecond) + 15
              IN  slept = IF d > 0 THEN d ELSE 0
C12_Witness ==
    /\ C12_Answered
    /\ remaining = 199
    /\ reset_time = 88 /\ slept = 3

(* C13: a failed quota-status call at the entry of a pass is not fatal:    *)
(* the pass it preceded still enumerates its repository (it requests at    *)
(* least one branch page before it returns).                               *)
C13_GovernorFailureNonFatal ==
    (pc = "returned" /\ status = "Rate Limit Error") => requested # {}

(* C14: whenever a branch-page request is next, the governor has been      *)
(* called since the pass began and since the pass's previous branch-page   *)
(* request.                                                                *)
C14_GovernorBetweenPages == pc = "fetch_page" => governed
C14_Witness ==
    /\ pc = "fetch_page" /\ governed
    /\ Cardinality(requested) >= 1
    /\ BranchPage(repo_full_name, page) # <<>>

(* what holds of the executor in every state of a call *)
C15_ExecutorBounded ==
    /\ retry_count <= 5
    /\ Len(exec_errors) <= 6
    /\ Len(exec_waits) = retry_count
    /\ \A i \in 1..Len(exec_waits) : exec_waits[i] = 5 * (2 ^ (i - 1))
    /\ exec_pc = "attempt" => Len(exec_errors) = retry_count
    /\ (exec_pc = "returned" /\ exec_result.kind = "null") =>
          Len(exec_errors) = 6 /\ retry_count = 5
    /\ (exec_pc = "returned" /\ exec_result.kind = "response") =>
          exec_result.attempt = Len(exec_errors)
    /\ exec_pc = "returned" => exec_result.kind \in {"null", "response"}
(* C15: a call of the executor ends; failed attempt number n (n = 0, 1,    *)
(* ...) is followed by a wait of 5 * 2^n seconds and a retry, at most 5    *)
(* retries and 6 attempts are made, null is returned exactly when all 6    *)
(* failed, and otherwise the response of the first attempt that got one.   *)
C15_ExecutorTerminates == []C15_ExecutorBounded /\ <>(exec_pc = "returned")
C15_Witness ==
    /\ exec_pc = "returned"
    /\ exec_result.kind = "null"
    /\ exec_waits = <<5, 10, 20, 40, 80>>

(* C16: every request of the crawl that gets a response is followed by    *)
(* the 200 ms delay before the next request is issued; here for the        *)
(* requests of merge resolution that got status 200 and have a successor   *)
(* in the same resolution.                                                 *)
C16_DelayAfterEveryRoundTrip ==
    \A i \in 1..Len(last.issued) :
        (i < Len(last.issued) /\ last.resp[last.issued[i]] = "ok") =>
            DelayAfter(last.issued[i]) = API_CALL_DELAY

C18_NotFoundAborts ==
    /\ [](C18_NotFoundOnPage =>
            /\ status = "Repo Not Found"
            /\ page_calls = Cardinality(requested)
            /\ page \in requested /\ (\A q \in requested : q <= page)
            /\ last.issued = <<>>
            /\ decided = {} /\ idx = 0 /\ branches_to_process = <<>>
            /\ current_time = 0
            /\ \A i \in 1..Len(repos_to_process) :
                  i # wi => repos_to_process[i] # repo_full_name)
    /\ [][PageAbortStep("page_404") =>
            /\ file' = file
            /\ checkpoint_data' = checkpoint_data
            /\ repo_checkpoint' = repo_checkpoint
            /\ attached' = attached
            /\ classCount' = classCount]_vars
    /\ [][C18_NotFoundOnPage => (pc' \in {"entry", "done", "crashed"} /\ wi' # wi)
                                 \/ pc' = "crashed"]_vars
C18_Witness ==
    /\ C18_NotFoundOnPage
    /\ page = 1
    /\ repo_checkpoint = EmptyEntry
    /\ file.state = "missing"

(* C19: the batches are consecutive slices of 5 of the work list (only    *)
(* the last may be shorter) that together are the work list; repositories  *)
(* are processed one at a time in list order, and between a repository     *)
(* and the next one there is exactly one pause followed by a governor      *)
(* check: 10 s inside a batch, 120 s between the last repository of a      *)
(* batch and the first of the next; nothing follows the last repository.   *)
C19_BatchesInOrder ==
    /\ \A b \in 1..Len(batches) :
          /\ Len(batches[b]) \in 1..5
          /\ b < Len(batches) => Len(batches[b]) = 5
          /\ \A j \in 1..Len(batches[b]) : batches[b][j] = sched_work[5 * (b - 1) + j]
    /\ \A p \in 1..Len(sched_log) :
          C19_RepoAt(p) =>
            LET k == sched_log[p].arg IN
            IF k = 1 THEN p = 1
            ELSE /\ p > 3
                 /\ sched_log[p - 3] = [ev |-> "repo", arg |-> k - 1]
                 /\ sched_log[p - 2] = [ev |-> "sleep",
                                        arg |-> IF (k - 1) % 5 = 0 THEN 120 ELSE 10]
                 /\ sched_log[p - 1] = [ev |-> "check_rate_limit", arg |-> 0]
    /\ sched_pc = "done" =>
          /\ C19_Flatten(batches) = sched_work
          /\ Cardinality({p \in 1..Len(sched_log) : C19_RepoAt(p)}) = Len(sched_work)
          /\ sched_work # <<>> =>
                sched_log[Len(sched_log)] = [ev |-> "repo", arg |-> Len(sched_work)]
          /\ sched_work = <<>> => sched_log = <<>>
C19_Witness ==
    /\ sched_pc = "done"
    /\ Len(sched_work) = 11
    /\ Len(batches) = 3
    /\ Len(batches[3]) = 1

C22_NoNetworkBeforeConfigStop ==
    pc = "stopped" =>
        /\ repos_to_process = <<>>
        /\ outcomes = <<>>
        /\ \A i \in 1..Len(main_calls) : main_calls[i] \notin NetworkCalls

(* C23: for every repository, the processed_branches in the checkpoint    *)
(* file, in the loaded checkpoint and in the pass that is running hold     *)
(* only names that were on a branch page fetched for that repository, in   *)
(* this run or an earlier one.                                             *)
C23_ProcessedWereSeen ==
    /\ \A r \in Repos :
          /\ SeqToSet(Persisted(r).processed_branches) \subseteq seen[r]
          /\ SeqToSet(checkpoint_data[r].processed_branches) \subseteq seen[r]
          /\ SeqToSet(durable[r].processed_branches) \subseteq seen[r]
    /\ InPass =>
          /\ SeqToSet(processed_branches) \subseteq seen[repo_full_name]
          /\ SeqToSet(repo_checkpoint.processed_branches) \subseteq seen[repo_full_name]
C23_Witness ==
    /\ run = 2 /\ pc = "classify"
    /\ Len(Persisted(repo_full_name).processed_branches) >= 2
    /\ seen[repo_full_name] = SeqToSet(RemoteBranches(repo_full_name))

(* C24: when a pass returns, the branch the classifier took up last        *)
(* (default-branch skip, not stale, stale, the stale branch that reached   *)
(* the expected count, failed commit fetch, parse error) is in             *)
(* processed_branches exactly once; and processed_branches never holds a   *)
(* name twice.                                                             *)
C24_TakenUpMarkedOnce ==
    /\ (pc = "returned" /\ last.branch # "none") =>
          Occurrences(processed_branches, last.branch) = 1
    /\ \A b \in BranchNames : Occurrences(processed_branches, b) <= 1
    /\ \A r \in Repos, b \in BranchNames :
          Occurrences(Persisted(r).processed_branches, b) <= 1

(* C25: in a first run without failures, when a pass returns for a         *)
(* repository whose expected count is its number of stale branches,        *)
(* stale_branches_info has exactly one record per non-default branch older *)
(* than 90 days, with its commit date, and no other record; and when the   *)
(* run is done the file holds, for main / feat-a (100 days, merged pull    *)
(* request into main) / feat-b (10 days) with expected 1, the one record   *)
(* of feat-a with last_merged_to main.                                     *)
C25_ExactlyTheStaleBranches ==
    /\ (C25_FreshAndClean /\ pc = "returned"
           /\ expected[repo_full_name]
                = Cardinality(C25_RealStale(repo_full_name, current_time))) =>
          /\ status = "Completed"
          /\ StaleNames(stale_branches_info)
                = C25_RealStale(repo_full_name, current_time)
          /\ Len(stale_branches_info) = expected[repo_full_name]
          /\ \A i \in 1..Len(stale_branches_info) :
                stale_branches_info[i].last_commit_date
                  = RemoteCommitDate(stale_branches_info[i].branch_name)
          /\ Persisted(repo_full_name).stale_branches_info = stale_branches_info
    /\ (C25_FreshAndClean /\ pc = "done" /\ expected["r1"] = 1) =>
          Persisted("r1").stale_branches_info =
              <<[branch_name |-> "feat-a",
                 last_commit_date |-> RemoteCommitDate("feat-a"),
                 last_merged_to |-> "main"]>>
C25_Witness ==
    /\ C25_FreshAndClean /\ pc = "done"
    /\ expected = [r \in Repos |-> 1]
    /\ StaleNames(Persisted("r1").stale_branches_info) = {"feat-a"}
    /\ StaleNames(Persisted("r2").stale_branches_info) = {"edge"}

(* C26: needs_excel_update of a repository becomes true only in a step in  *)
(* which writing its report failed, and once true becomes false only in a  *)
(* step in which regenerating its report succeeded; crawling, other        *)
(* repositories, a crash or a restart do not change it.                    *)
C26_FlagSticky ==
    [][\A r \in Repos :
          /\ (~ReportFlag(r) /\ ReportFlag(r)') =>
                report_step' = ReportOp("write", r, FALSE)
          /\ (ReportFlag(r) /\ ~ReportFlag(r)') =>
                report_step' = ReportOp("regenerate", r, TRUE)]_vars

(* C27: when find_last_merged_branch has returned, its requests were made  *)
(* in the order of the chain; the merge-commit search was issued only if   *)
(* step 1 gave no base branch (and then it was, unless a request raised),  *)
(* the default-branch step only if step 2 gave no target either; the       *)
(* result is "Error" exactly when a request of the call raised, and        *)
(* "Unknown" exactly when none raised and none of the three steps found    *)
(* anything.                                                               *)
C27_OrderedFallback ==
    merge_pc = "returned" =>
       /\ \A i, j \in 1..Len(merge_out.issued) :
             i < j => C27_Rank(merge_out.issued[i]) < C27_Rank(merge_out.issued[j])
       /\ C27_Issued("pr_search")
       /\ C27_Issued("commit_search") => ~C27_Step1Found
       /\ (C27_Issued("repo") \/ C27_Issued("default_search")) =>
             (C27_Issued("commit_search") /\ ~C27_Step1Found /\ ~C27_Step2Found)
       /\ C27_Issued("default_search") => C27_Issued("repo")
       /\ (~C27_Raised /\ ~C27_Step1Found) => C27_Issued("commit_search")
       /\ (~C27_Raised /\ ~C27_Step1Found /\ ~C27_Step2Found) => C27_Issued("repo")
       /\ (merge_out.result = "Error") <=> C27_Raised
       /\ (merge_out.result = "Unknown") <=>
             (~C27_Raised /\ ~C27_Step1Found /\ ~C27_Step2Found /\ ~C27_Step3Found)
       /\ (~C27_Raised /\ C27_Step1Found) => merge_out.result = RemotePrBase(merge_branch)
C27_Witness ==
    /\ merge_pc = "returned"
    /\ merge_branch = "feat-b"
    /\ merge_resp = AllOk
    /\ merge_out = MergeResult("Unknown",
                       <<"pr_search", "commit_search", "repo", "default_search">>)

(* C28: in count mode a total_branches stored in the checkpoint file is    *)
(* the number of branches of the repository, and a repository that main    *)
(* takes as fully processed has had each of its non-default branches       *)
(* classified.                                                             *)
C28_TotalIsBranchCount ==
    mode = "count" =>
        \A r \in Repos :
            /\ "total_branches" \in Persisted(r).keys =>
                  Persisted(r).total_branches = Len(RemoteBranches(r))
            /\ IsComplete(mode, expected, load_checkpoint(file), r) =>
                  \A b \in NonDefaultBranches(r) : classCount[b] >= 1

(* C29: through runs, crashes and restarts, stale_branches_info of a        *)
(* repository, in the checkpoint file and in the running pass, never holds *)
(* two records with the same branch_name, and a record stored in the file  *)
(* stays there unchanged.                                                  *)
C29_RecordsCreatedOnce ==
    /\ [](\A r \in Repos : C29_NoDuplicates(Persisted(r).stale_branches_info))
    /\ [](C29_NoDuplicates(stale_branches_info))
    /\ [][\A r \in Repos :
             C29_Kept(Persisted(r).stale_branches_info,
                      Persisted(r).stale_branches_info')]_vars

C31_SavedBeforeRequest ==
    (C31_RequestNext /\ faults = 0 /\ crashes = 0) => C31_EntrySaved

(* C32: a step in which a checkpoint write fails leaves the process in the *)
(* pass or at its return, with the entry it tried to write still in        *)
(* memory; while the process goes on, what main's map holds never falls    *)
(* behind what a failed write was given; and the first write that succeeds *)
(* afterwards stores the whole map of the process, which holds everything  *)
(* the failed write was given.                                             *)
C32_FailedWriteKeepsMemory ==
    /\ [][(unsaved'.failed /\ unsaved' # unsaved) =>
            /\ pc' \in {"fetch_page", "classify", "mark", "returned"}
            /\ unsaved'.data[repo_full_name] = repo_checkpoint'
            /\ attached']_vars
    /\ [][(unsaved.failed /\ unsaved'.failed /\ C32_GoesOn) =>
            \A q \in Repos :
               C32_Holds(unsaved.data[q],
                         IF pc' \in {"entry", "done"} \/ ~attached' \/ q # repo_full_name'
                         THEN checkpoint_data'[q] ELSE repo_checkpoint')]_vars
    /\ [][(unsaved.failed /\ ~unsaved'.failed /\ C32_GoesOn) =>
            /\ file'.state = "ok"
            /\ file'.data[repo_full_name] = repo_checkpoint'
            /\ \A q \in Repos : C32_Holds(unsaved.data[q], file'.data[q])]_vars
C32_Witness ==
    /\ ~unsaved.failed
    /\ faults = 1 /\ crashes = 0 /\ ~runClean
    /\ wi = 2 /\ outcomes = <<"Completed">>
    /\ pc = "fetch_page"
    /\ file.state = "ok"
    /\ file.data["r1"].stale_branches_info # <<>>

(* C33: a commit request that fails changes no list, no count and no file, *)
(* and the loop goes to the next branch (the pass returns "Completed"      *)
(* after the last one); and when a later run that worked on the repository *)
(* has ended, the branch has been classified.                              *)
C33_FetchFailureIsLocal ==
    /\ [][C33_FetchFails =>
            /\ fetchFailed' = [fetchFailed EXCEPT ![branch] = run]
            /\ UNCHANGED <<stale_branches_info, processed_branches, stale_count,
                           repo_checkpoint, file, wi, branches_to_process>>
            /\ idx' = idx + 1
            /\ IF idx < Len(branches_to_process)
               THEN pc' = "classify"
               ELSE pc' = "returned" /\ status' = "Completed"]_vars
    /\ [](\A b \in BranchNames : C33_LaterRunDone(b) => classCount[b] >= 1)

C35_CountMatchesMarks ==
    mode = "count" =>
        \A r \in Repos :
            LET e == Persisted(r)
                P == SeqToSet(e.processed_branches)
            IN  /\ e.stale_count = Cardinality({b \in P : verdict[b] = "stale"})
                /\ Cardinality(P) = Len(e.processed_branches)
                /\ e.stale_count <= Len(e.processed_branches)
C35_Witness ==
    /\ mode = "count"
    /\ pc = "crashed"
    /\ Persisted("r1").stale_count = 1
    /\ Persisted("r1").processed_branches = <<"main", "feat-a">>
    /\ verdict["feat-a"] = "stale"

(* C36: in detail mode, whenever the processing of a repository has        *)
(* returned, with any status, and after any crash, every branch_name among *)
(* the stale_branches_info of the checkpoint file is also among the        *)
(* processed_branches of the file.                                         *)
C36_Unmarked(r) ==
    {k \in 1..Len(Persisted(r).stale_branches_info) :
        Persisted(r).stale_branches_info[k].branch_name
            \notin SeqToSet(Persisted(r).processed_branches)}
C36_StaleRecordsAreMarked ==
    (mode = "detail" /\ pc \in {"returned", "crashed"} /\ faults = 0)
        => \A r \in Repos : C36_Unmarked(r) = {}

(* C37: the pages_processed that the checkpoint file gives for a           *)
(* repository never decreases over any step (page fetch, save, crash,      *)
(* restart), and it never exceeds the number of non-empty branch pages of  *)
(* the repository.                                                         *)
C37_WithinPages == \A r \in Repos : Persisted(r).pages_processed <= NumPages(r)
C37_PagesNeverDecrease ==
    /\ [][\A r \in Repos :
            load_checkpoint(file')[r].pages_processed >= Persisted(r).pages_processed]_vars
    /\ []C37_WithinPages

(* C38: frame.  Over every step of the pass over a repository R, the       *)
(* entries of all other repositories in the checkpoint map of the process  *)
(* stay as they are, and every save made in the pass writes them to the    *)
(* file as they are in that map.                                           *)
C38_OnlyOwnEntryChanges ==
    [][(InPass /\ pc' # "crashed")
        => \A q \in Repos \ {repo_full_name} :
            /\ CheckpointData'[q] = CheckpointData[q]
            /\ (file' # file /\ file'.state = "ok")
                    => file'.data[q] = CheckpointData[q]]_vars
(* a save in the pass over the second repository of the run keeps the      *)
(* marks stored for the first                                              *)
C38_Witness ==
    /\ InPass
    /\ file.state = "ok"
    /\ file.data[repo_full_name].processed_branches # <<>>
    /\ \E q \in Repos \ {repo_full_name} :
            /\ file.data[q].processed_branches # <<>>
            /\ file.data[q] = CheckpointData[q]

(* C39: in detail mode, a pass that ends with Connection Error, Repo Not   *)
(* Found or Error returns the stale records it holds (those of the         *)
(* checkpoint entry it started from), and main calls the report writer     *)
(* with them; a pass returns None only when the governor failed at its     *)
(* entry, before any request for a branch page, and then main does not     *)
(* call the report writer and neither the entry of the repository nor the  *)
(* file changes.                                                           *)
C39_PageFailed == mode = "detail" /\ pc = "returned" /\ status \in C30_PageFailure
C39_EntryFailed == mode = "detail" /\ pc = "returned" /\ status = "Rate Limit Error"
C39_FailuresKeepRecords ==
    /\ [](C39_PageFailed =>
            /\ result = [kind |-> "info", info |-> stale_branches_info]
            /\ result.info = checkpoint_data[repo_full_name].stale_branches_info)
    /\ [][(C39_PageFailed /\ pc' # "crashed") =>
            excel'[repo_full_name] = [called |-> TRUE, info |-> stale_branches_info]]_vars
    /\ []((mode = "detail" /\ pc = "returned" /\ result.kind # "info") =>
            /\ result = None
            /\ status = "Rate Limit Error"
            /\ requested = {} /\ page_calls = 0)
    /\ [](C39_EntryFailed =>
            /\ result = None
            /\ CheckpointData[repo_full_name] = checkpoint_data[repo_full_name])
    /\ [][(mode = "detail" /\ pc = "entry" /\ pc' = "returned"
                /\ status' = "Rate Limit Error") =>
            file' = file /\ checkpoint_data' = checkpoint_data]_vars
    /\ [][(C39_EntryFailed /\ pc' # "crashed") =>
            /\ ~excel'[repo_full_name].called
            /\ file' = file
            /\ checkpoint_data' = checkpoint_data]_vars
(* a later run: the page request for the first repository failed and main  *)
(* passed on the record stored by the run before; the pass over the second *)
(* repository failed at its entry and no report call was made for it       *)
C39_Witness ==
    /\ mode = "detail"
    /\ Len(outcomes) = 2
    /\ outcomes[1] \in C30_PageFailure
    /\ outcomes[2] = "Rate Limit Error"
    /\ excel[repos_to_process[1]].called
    /\ excel[repos_to_process[1]].info # <<>>
    /\ ~excel[repos_to_process[2]].called

====
